---- MODULE Spec2Model ----
(***************************************************************************)
(* Graph construction of codescan: the directory scan of scanner.main /    *)
(* analysis.analyze_directory, the syntax-tree visitor CodeAnalyzer and    *)
(* the Cypher statements it sends to the graph store.                      *)
(*                                                                         *)
(* Identifiers and path segments are sequences of one-character strings,   *)
(* so that startswith / endswith / substring tests are computed.  The      *)
(* store is a sequence of nodes in creation order (a node's id is its      *)
(* index) and a set of relationships.  A syntax tree is the sequence of    *)
(* its nodes in visiting order, each followed by its children and closed   *)
(* by an "End" token.                                                      *)
(***************************************************************************)
EXTENDS Integers, Sequences, FiniteSets, TLC

(***************************************************************************)
(* Bounds                                                                  *)
(***************************************************************************)
\* largest number of files in the scanned directory
MaxFiles == 3

(***************************************************************************)
(* Strings                                                                 *)
(***************************************************************************)
\* str.startswith
StartsWith(s, p) ==
    /\ Len(p) <= Len(s)
    /\ SubSeq(s, 1, Len(p)) = p

\* str.endswith
EndsWith(s, p) ==
    /\ Len(p) <= Len(s)
    /\ SubSeq(s, Len(s) - Len(p) + 1, Len(s)) = p

\* the part of a dotted name after its last ".", the whole name if none
RECURSIVE SimpleName(_)
SimpleName(s) ==
    IF \A i \in 1..Len(s) : s[i] # "."
    THEN s
    ELSE SimpleName(Tail(s))

n_us       == <<"_", "_">>
n_main     == <<"m", "a", "i", "n">>
n_helper   == <<"h", "e", "l", "p", "e", "r">>
n_run      == <<"r", "u", "n">>
n_go       == <<"g", "o">>
n_fmt      == <<"f", "m", "t">>
n_K        == <<"K">>
n_init     == <<"_", "_", "i", "n", "i", "t", "_", "_">>
n_print    == <<"p", "r", "i", "n", "t">>
n_len      == <<"l", "e", "n">>
n_os       == <<"o", "s">>
n_getcwd   == <<"g", "e", "t", "c", "w", "d">>
n_test_helper == <<"t", "e", "s", "t", "_">> \o n_helper
n_examples == <<"e", "x", "a", "m", "p", "l", "e", "s">>
n_tests    == <<"t", "e", "s", "t", "s">>
n_test     == <<"t", "e", "s", "t">>
n_testing  == <<"t", "e", "s", "t", "i", "n", "g">>
n_py       == <<".", "p", "y">>
n_add      == <<"a", "d", "d">>
n_test_add == <<"t", "e", "s", "t", "_">> \o n_add
n_calc     == <<"c", "a", "l", "c">>
n_TestK    == <<"T", "e", "s", "t", "K">>
n_spec     == <<"s", "p", "e", "c">>
n_LIMIT_K  == <<"L", "I", "M", "I", "T", "_", "K">>
n_MAX_N    == <<"M", "A", "X", "_", "N">>
n_MAXN     == <<"M", "A", "X", "N">>
n_max_n    == <<"m", "a", "x", "_", "n">>
n_top      == <<"t", "o", "p">>
n_mid      == <<"m", "i", "d">>
n_low      == <<"l", "o", "w">>
n_leaf     == <<"l", "e", "a", "f">>
n_fact     == <<"f", "a", "c", "t">>
n_ping     == <<"p", "i", "n", "g">>
n_pong     == <<"p", "o", "n", "g">>
n_lone     == <<"l", "o", "n", "e">>
n_outer    == <<"o", "u", "t", "e", "r">>
n_inner    == <<"i", "n", "n", "e", "r">>
n_Inner    == <<"I", "n", "n", "e", "r">>
n_show     == <<"s", "h", "o", "w">>

\* the absent name (None)
None == <<>>

(***************************************************************************)
(* constants.py                                                            *)
(***************************************************************************)
\* the names of dir(builtins) that the scanned programs use
BUILTIN_FUNCTIONS == {n_print, n_len}

\* the default TEST_DIR_PATTERNS, "tests/,test/,testing/" split at ","
TEST_DIR_PATTERNS == {n_tests \o <<"/">>, n_test \o <<"/">>, n_testing \o <<"/">>}

\* the default TEST_FILE_PATTERNS, "test_*.py,*_test.py" split at ","
TEST_FILE_PATTERNS ==
    {<<"t", "e", "s", "t", "_", "*">> \o n_py, <<"*", "_", "t", "e", "s", "t">> \o n_py}

\* the default TEST_FUNCTION_PREFIXES
TEST_FUNCTION_PREFIXES == {<<"t", "e", "s", "t", "_">>}

\* the edge colours written by the analyzer
CallsColor == "#FF9800"
ContainsColor == "#9C27B0"
TestsColor == "#3F51B5"
DefinesColor == "#E91E63"
ImportsColor == "#4CAF50"

(***************************************************************************)
(* utils.py                                                                *)
(***************************************************************************)
\* the modules is_stdlib_module finds under sys.prefix
StdlibModules == {n_os}

is_stdlib_module(module_name) == module_name \in StdlibModules

\* str.rstrip('/')
RECURSIVE RStripSlash(_)
RStripSlash(s) ==
    IF Len(s) > 0 /\ s[Len(s)] = "/"
    THEN RStripSlash(SubSeq(s, 1, Len(s) - 1))
    ELSE s

\* fnmatch.fnmatch for patterns of literal characters and "*"
RECURSIVE fnmatch(_, _)
fnmatch(name, pat) ==
    IF pat = <<>> THEN name = <<>>
    ELSE IF Head(pat) = "*"
         THEN \/ fnmatch(name, Tail(pat))
              \/ (name # <<>> /\ fnmatch(Tail(name), pat))
         ELSE /\ name # <<>>
              /\ Head(name) = Head(pat)
              /\ fnmatch(Tail(name), Tail(pat))

\* A path is the sequence of its segments.  "examples/" occurs in the
\* joined path exactly when a segment other than the last ends with
\* "examples"; "/examples/" is the case of such a segment being equal to it.
is_example_file(path) ==
    \/ \E i \in 1..(Len(path) - 1) : EndsWith(path[i], n_examples)
    \/ \E i \in 1..Len(path) : path[i] = n_examples

\* "/spec/example_spec.py" occurs in the joined path
SpecialSpecPath(path) ==
    \E i \in 2..(Len(path) - 1) :
        /\ path[i] = <<"s", "p", "e", "c">>
        /\ StartsWith(path[i + 1],
                      <<"e", "x", "a", "m", "p", "l", "e", "_", "s", "p", "e", "c">> \o n_py)

is_test_file(path) ==
    IF is_example_file(path) THEN FALSE
    ELSE \/ SpecialSpecPath(path)
         \/ \E i \in 1..Len(path) : \E p \in TEST_DIR_PATTERNS : path[i] = RStripSlash(p)
         \/ \E p \in TEST_FILE_PATTERNS : fnmatch(path[Len(path)], p)

(***************************************************************************)
(* The graph store: the Cypher clauses the analyzer uses                   *)
(***************************************************************************)
EmptyGraph == [nodes |-> <<>>, rels |-> {}]

\* a property map {k: v, ...} of a pattern holds of an entity
HasProps(props, pat) ==
    \A k \in DOMAIN pat : k \in DOMAIN props /\ props[k] = pat[k]

\* MATCH (n:L1:L2 {props}): the ids of the matching nodes
MatchNodes(g, labels, pat) ==
    {i \in 1..Len(g.nodes) :
        /\ labels \subseteq g.nodes[i].labels
        /\ HasProps(g.nodes[i].props, pat)}

\* the rows of a MATCH come in node-id order, the order of creation
FirstNode(ids) == CHOOSE i \in ids : \A j \in ids : i <= j

\* MERGE (n:L1:L2 {props})
MergeNode(g, labels, props) ==
    IF MatchNodes(g, labels, props) # {}
    THEN g
    ELSE [g EXCEPT !.nodes = Append(@, [labels |-> labels, props |-> props])]

\* MATCH (a)-[r:TYPE {props}]->(b)
MatchRels(g, type, src, dst, pat) ==
    {r \in g.rels : r.type = type /\ r.src = src /\ r.dst = dst /\ HasProps(r.props, pat)}

\* MERGE (a)-[:TYPE {props}]->(b), once for every row (a, b) of pairs
MergeRels(g, type, pairs, props) ==
    [g EXCEPT !.rels = @ \cup
        {[type |-> type, src |-> p[1], dst |-> p[2], props |-> props] :
            p \in {q \in pairs : MatchRels(g, type, q[1], q[2], props) = {}}}]

\* a clearing that deletes nothing
clear_database_Nothing(g) == g

\* a clearing that deletes the relationships and keeps the nodes
clear_database_KeepNodes(g) == [g EXCEPT !.rels = {}]

\* db_operations.clear_database: MATCH (n) DETACH DELETE n
clear_database(g) == EmptyGraph

(***************************************************************************)
(* Syntax trees                                                            *)
(***************************************************************************)
\* ast.ClassDef with its name, lineno and end_lineno
ClassDef(name, line, end_line) ==
    [op |-> "ClassDef", name |-> name, module |-> None, line |-> line,
     end_line |-> end_line, args |-> <<>>]

\* ast.FunctionDef with its name, lineno and end_lineno
FunctionDef(name, line, end_line) ==
    [op |-> "FunctionDef", name |-> name, module |-> None, line |-> line,
     end_line |-> end_line, args |-> <<>>]

\* ast.Call: name is the called name (func.id or func.attr, None for any
\* other callee expression), module the receiver name of an attribute call
\* (None if there is none), args the rendering of each positional argument
Call(name, module, line, args) ==
    [op |-> "Call", name |-> name, module |-> module, line |-> line,
     end_line |-> line, args |-> args]

\* closes the children of the latest open node
End ==
    [op |-> "End", name |-> None, module |-> None, line |-> 0,
     end_line |-> 0, args |-> <<>>]

\* ast.Name as an assignment target
Name(id) == [kind |-> "Name", id |-> id]

\* any assignment target that is not a plain name (self.x, a[i], (a, b))
Attribute(attr) == [kind |-> "Attribute", id |-> attr]

\* ast.Constant as a value, with repr(value) and type(value).__name__
Constant(repr, type_name) ==
    [kind |-> "Constant", repr |-> repr, type_name |-> type_name]

\* ast.UnaryOp with operator USub on a constant
USub(repr, type_name) ==
    [kind |-> "USub", repr |-> repr, type_name |-> type_name]

\* any other value expression, with its ast.dump
Expression(dump) == [kind |-> "Other", repr |-> dump, type_name |-> "expression"]

\* ast.Assign with its targets, its value, lineno and end_lineno; the
\* children that follow are the calls of the value expression
Assign(targets, value, line, end_line) ==
    [op |-> "Assign", name |-> None, module |-> None, line |-> line,
     end_line |-> end_line, args |-> <<>>, targets |-> targets, value |-> value]

\* ast.alias: asname is None when there is no "as" clause
Alias(name, asname) == [name |-> name, asname |-> asname]

\* ast.Import with its aliases
Import(names, line) ==
    [op |-> "Import", name |-> None, module |-> None, line |-> line,
     end_line |-> line, args |-> <<>>, names |-> names]

\* ast.ImportFrom with its module and its aliases
ImportFrom(module, names, line) ==
    [op |-> "ImportFrom", name |-> None, module |-> module, line |-> line,
     end_line |-> line, args |-> <<>>, names |-> names]

\* a.py
\*   1 def main():
\*   2     helper()
File_main ==
    [path |-> << <<"a">> \o n_py >>,
     error |-> "none", message |-> "",
     tokens |-> << FunctionDef(n_main, 1, 2),
                     Call(n_helper, None, 2, <<>>), End,
                   End >>]

\* b.py
\*   1 def helper(x):
\*   2     print(fmt(x))
\*   3     os.getcwd()
File_helper ==
    [path |-> << <<"b">> \o n_py >>,
     error |-> "none", message |-> "",
     tokens |-> << FunctionDef(n_helper, 1, 3),
                     Call(n_print, None, 2, <<"Call(fmt)">>),
                       Call(n_fmt, None, 2, <<"x">>), End,
                     End,
                     Call(n_getcwd, n_os, 3, <<>>), End,
                   End >>]

\* c.py
\*   1 def run():
\*   2     helper(1)
\*   3     helper(2)
\*   4 run()
File_run ==
    [path |-> << <<"c">> \o n_py >>,
     error |-> "none", message |-> "",
     tokens |-> << FunctionDef(n_run, 1, 3),
                     Call(n_helper, None, 2, <<"1">>), End,
                     Call(n_helper, None, 3, <<"2">>), End,
                   End,
                   Call(n_run, None, 4, <<>>), End >>]

\* d.py
\*   1 class K:
\*   2     def __init__(self):
\*   3         helper()
\*   4     def helper(self):
\*   5         K.__init__(self)
\*   6     LIMIT_K = 5
File_class ==
    [path |-> << <<"d">> \o n_py >>,
     error |-> "none", message |-> "",
     tokens |-> << ClassDef(n_K, 1, 6),
                     FunctionDef(n_init, 2, 3),
                       Call(n_helper, None, 3, <<>>), End,
                     End,
                     FunctionDef(n_helper, 4, 5),
                       Call(n_init, n_K, 5, <<"self">>), End,
                     End,
                     Assign(<<Name(n_LIMIT_K)>>, Constant("5", "int"), 6, 6), End,
                   End >>]

\* e.py
\*   1 def helper():
\*   2     pass
\*   3 def helper():
\*   4     go()
File_dup ==
    [path |-> << <<"e">> \o n_py >>,
     error |-> "none", message |-> "",
     tokens |-> << FunctionDef(n_helper, 1, 2), End,
                   FunctionDef(n_helper, 3, 4),
                     Call(n_go, None, 4, <<>>), End,
                   End >>]

\* tests/test_h.py
\*   1 def test_helper():
\*   2     helper()
\*   3 def helper():
\*   4     pass
\*   5 import os
\*   6 from b import fmt
File_test ==
    [path |-> << n_tests, <<"t", "e", "s", "t", "_", "h">> \o n_py >>,
     error |-> "none", message |-> "",
     tokens |-> << FunctionDef(n_test_helper, 1, 2),
                     Call(n_helper, None, 2, <<>>), End,
                   End,
                   FunctionDef(n_helper, 3, 4), End,
                   Import(<<Alias(n_os, None)>>, 5), End,
                   ImportFrom(<<"b">>, <<Alias(n_fmt, None)>>, 6), End >>]

\* examples/demo.py
\*   1 def go():
\*   2     main()
File_example ==
    [path |-> << n_examples, <<"d", "e", "m", "o">> \o n_py >>,
     error |-> "none", message |-> "",
     tokens |-> << FunctionDef(n_go, 1, 2),
                     Call(n_main, None, 2, <<>>), End,
                   End >>]

\* the files a scanned directory is made of
Files == {File_main, File_helper, File_run, File_class, File_dup, File_test, File_example}

\* pkg/spec/example_spec.py
\*   1 def run():
\*   2     helper()
File_spec ==
    [path |-> << <<"p", "k", "g">>, n_spec,
                 <<"e", "x", "a", "m", "p", "l", "e", "_">> \o n_spec \o n_py >>,
     error |-> "none", message |-> "",
     tokens |-> << FunctionDef(n_run, 1, 2),
                     Call(n_helper, None, 2, <<>>), End,
                   End >>]

\* src/consts.py
\*   1 MAX_N = 1
\*   2 class K:
\*   3     MAX_N = 2
\*   4     def __init__(self):
\*   5         MAX_N = 3
\*   6     def run(self):
\*   7         MAXN = 4
\*   8         max_n = 5
\*   9         self.MAX_N = -6
\*  10         MAX_N = helper()
\*  11 import os
\*  12 from calc import add
File_consts ==
    [path |-> << <<"s", "r", "c">>, <<"c", "o", "n", "s", "t", "s">> \o n_py >>,
     error |-> "none", message |-> "",
     tokens |-> << Assign(<<Name(n_MAX_N)>>, Constant("1", "int"), 1, 1), End,
                   ClassDef(n_K, 2, 10),
                     Assign(<<Name(n_MAX_N)>>, Constant("2", "int"), 3, 3), End,
                     FunctionDef(n_init, 4, 5),
                       Assign(<<Name(n_MAX_N)>>, Constant("3", "int"), 5, 5), End,
                     End,
                     FunctionDef(n_run, 6, 10),
                       Assign(<<Name(n_MAXN)>>, Constant("4", "int"), 7, 7), End,
                       Assign(<<Name(n_max_n)>>, Constant("5", "int"), 8, 8), End,
                       Assign(<<Attribute(n_MAX_N)>>, USub("6", "int"), 9, 9), End,
                       Assign(<<Name(n_MAX_N)>>, Expression("Call(helper)"), 10, 10),
                         Call(n_helper, None, 10, <<>>), End,
                       End,
                     End,
                   End,
                   Import(<<Alias(n_os, None)>>, 11), End,
                   ImportFrom(n_calc, <<Alias(n_add, None)>>, 12), End >>]

\* myexamples/test_x.py
\*   1 MAX_N = 1
\*   2 def run():
\*   3     pass
File_myexamples ==
    [path |-> << <<"m", "y">> \o n_examples, <<"t", "e", "s", "t", "_", "x">> \o n_py >>,
     error |-> "none", message |-> "",
     tokens |-> << Assign(<<Name(n_MAX_N)>>, Constant("1", "int"), 1, 1), End,
                   FunctionDef(n_run, 2, 3), End >>]

\* tests/test_c.py
\*   1 MAX_N = 1
File_test_consts ==
    [path |-> << n_tests, <<"t", "e", "s", "t", "_", "c">> \o n_py >>,
     error |-> "none", message |-> "",
     tokens |-> << Assign(<<Name(n_MAX_N)>>, Constant("1", "int"), 1, 1), End >>]

\* bad.py, which ast.parse rejects
\*   1 def bad(:
File_bad ==
    [path |-> << <<"b", "a", "d">> \o n_py >>,
     error |-> "SyntaxError", message |-> "invalid syntax (bad.py, line 1)",
     tokens |-> <<>>]

\* bin.py, the bytes ff fe fd fc fb fa, which are not UTF-8
File_bin ==
    [path |-> << <<"b", "i", "n">> \o n_py >>,
     error |-> "UnicodeDecodeError", message |-> "",
     tokens |-> <<>>]

\* a project with files of every classification and files that do not parse
ClassifyFiles ==
    {File_spec, File_consts, File_myexamples, File_test_consts, File_bad, File_bin}

\* calc.py
\*   1 def add(a, b):
\*   2     return a + b
\*   3 class K:
\*   4     def add(self):
\*   5         pass
\*   6 LIMIT_K = 5
File_calc ==
    [path |-> << n_calc \o n_py >>,
     error |-> "none", message |-> "",
     tokens |-> << FunctionDef(n_add, 1, 2), End,
                   ClassDef(n_K, 3, 5),
                     FunctionDef(n_add, 4, 5), End,
                   End,
                   Assign(<<Name(n_LIMIT_K)>>, Constant("5", "int"), 6, 6), End >>]

\* tests/test_calc.py
\*   1 import os
\*   2 from calc import add
\*   3 def test_add():
\*   4     add(1, 2)
File_test_calc ==
    [path |-> << n_tests, n_test \o <<"_">> \o n_calc \o n_py >>,
     error |-> "none", message |-> "",
     tokens |-> << Import(<<Alias(n_os, None)>>, 1), End,
                   ImportFrom(n_calc, <<Alias(n_add, None)>>, 2), End,
                   FunctionDef(n_test_add, 3, 4),
                     Call(n_add, None, 4, <<"1", "2">>), End,
                   End >>]

\* tests/test_k.py
\*   1 class TestK:
\*   2     def test_add(self):
\*   3         from calc import add
\*   4         add(3, 4)
File_test_k ==
    [path |-> << n_tests, <<"t", "e", "s", "t", "_", "k">> \o n_py >>,
     error |-> "none", message |-> "",
     tokens |-> << ClassDef(n_TestK, 1, 4),
                     FunctionDef(n_test_add, 2, 4),
                       ImportFrom(n_calc, <<Alias(n_add, None)>>, 3), End,
                       Call(n_add, None, 4, <<"3", "4">>), End,
                     End,
                   End >>]

\* a project with a production unit and two test units for it
LinkFiles == {File_calc, File_test_calc, File_test_k}

\* chain.py
\*   1 def leaf(n):
\*   2     pass
\*   3 def low(n):
\*   4     leaf(1)
\*   5     leaf(2)
\*   6     leaf(3)
\*   7 def mid():
\*   8     low(1)
\*   9     low(2)
\*  10     low(3)
\*  11     low(4)
\*  12 def top():
\*  13     mid()
File_chain ==
    [path |-> << <<"c", "h", "a", "i", "n">> \o n_py >>,
     error |-> "none", message |-> "",
     tokens |-> << FunctionDef(n_leaf, 1, 2), End,
                   FunctionDef(n_low, 3, 6),
                     Call(n_leaf, None, 4, <<"1">>), End,
                     Call(n_leaf, None, 5, <<"2">>), End,
                     Call(n_leaf, None, 6, <<"3">>), End,
                   End,
                   FunctionDef(n_mid, 7, 11),
                     Call(n_low, None, 8, <<"1">>), End,
                     Call(n_low, None, 9, <<"2">>), End,
                     Call(n_low, None, 10, <<"3">>), End,
                     Call(n_low, None, 11, <<"4">>), End,
                   End,
                   FunctionDef(n_top, 12, 13),
                     Call(n_mid, None, 13, <<>>), End,
                   End >>]

\* a project whose call graph has paths of length three and a tested unit
QueryFiles == {File_chain, File_calc, File_test_calc}

\* rec.py
\*   1 def run():
\*   2     helper()
\*   3 def helper():
\*   4     helper()
\*   5 def fact(n):
\*   6     fact(n)
\*   7 def ping():
\*   8     pong()
\*   9 def pong():
\*  10     ping()
\*  11 def lone():
\*  12     pass
File_rec ==
    [path |-> << <<"r", "e", "c">> \o n_py >>,
     error |-> "none", message |-> "",
     tokens |-> << FunctionDef(n_run, 1, 2),
                     Call(n_helper, None, 2, <<>>), End,
                   End,
                   FunctionDef(n_helper, 3, 4),
                     Call(n_helper, None, 4, <<>>), End,
                   End,
                   FunctionDef(n_fact, 5, 6),
                     Call(n_fact, None, 6, <<"n">>), End,
                   End,
                   FunctionDef(n_ping, 7, 8),
                     Call(n_pong, None, 8, <<>>), End,
                   End,
                   FunctionDef(n_pong, 9, 10),
                     Call(n_ping, None, 10, <<>>), End,
                   End,
                   FunctionDef(n_lone, 11, 12), End >>]

\* limits.py
\*   1 MAX_N = 5
\*   2 def run():
\*   3     LIMIT_K = 1
File_limits ==
    [path |-> << <<"l", "i", "m", "i", "t", "s">> \o n_py >>,
     error |-> "none", message |-> "",
     tokens |-> << Assign(<<Name(n_MAX_N)>>, Constant("5", "int"), 1, 1), End,
                   FunctionDef(n_run, 2, 3),
                     Assign(<<Name(n_LIMIT_K)>>, Constant("1", "int"), 3, 3), End,
                   End >>]

\* a project with recursive and uncalled routines and with constants that
\* share values and names
AnomalyFiles == {File_rec, File_limits, File_consts, File_class}

\* nested.py
\*   1 def outer():
\*   2     def inner():
\*   3         pass
\*   4     helper()
\*   5     MAX_N = 1
\*   6 class K:
\*   7     class Inner:
\*   8         pass
\*   9     def run(self):
\*  10         pass
File_nested ==
    [path |-> << <<"n", "e", "s", "t", "e", "d">> \o n_py >>,
     error |-> "none", message |-> "",
     tokens |-> << FunctionDef(n_outer, 1, 5),
                     FunctionDef(n_inner, 2, 3), End,
                     Call(n_helper, None, 4, <<>>), End,
                     Assign(<<Name(n_MAX_N)>>, Constant("1", "int"), 5, 5), End,
                   End,
                   ClassDef(n_K, 6, 10),
                     ClassDef(n_Inner, 7, 8), End,
                     FunctionDef(n_run, 9, 10), End,
                   End >>]

\* a project with definitions nested in routines and in classes
ScopeFiles == {File_nested, File_consts, File_helper}

\* os.walk yields the files of a directory in the order of the directory
\* listing, which is arbitrary: a tree is any sequence of distinct files
Trees(files) ==
    {t \in UNION {[1..n -> files] : n \in 1..MaxFiles} :
        \A i, j \in 1..Len(t) : i # j => t[i] # t[j]}

\* the position of the End token that closes the node at position pos
RECURSIVE ClosingEnd(_, _, _)
ClosingEnd(tokens, pos, depth) ==
    IF tokens[pos].op = "End"
    THEN IF depth = 1 THEN pos ELSE ClosingEnd(tokens, pos + 1, depth - 1)
    ELSE ClosingEnd(tokens, pos + 1, depth + 1)

\* the position after the node at position pos and all of its children
AfterNode(tokens, pos) == ClosingEnd(tokens, pos + 1, 1) + 1

(***************************************************************************)
(* analyzer.py: CodeAnalyzer                                               *)
(***************************************************************************)
\* CodeAnalyzer.__init__; pos is the visitor's position in the tree and
\* frames its stack of open visit_* calls with their local previous_scope
CodeAnalyzer(file_path, is_test) ==
    [file_path |-> file_path,
     is_test_file |-> is_test,
     is_example_file |-> is_example_file(file_path),
     current_class |-> None,
     current_function |-> None,
     current_scope |-> "module",
     pos |-> 1,
     frames |-> <<>>]

\* no file is being analysed
NoAnalyzer ==
    [file_path |-> <<>>,
     is_test_file |-> FALSE,
     is_example_file |-> FALSE,
     current_class |-> None,
     current_function |-> None,
     current_scope |-> "module",
     pos |-> 1,
     frames |-> <<>>]

\* generic_visit(node): go on with the children of the node
Descend(a, kind) ==
    [a EXCEPT !.pos = @ + 1,
              !.frames = Append(@, [kind |-> kind, previous_scope |-> a.current_scope])]

\* the labels visit_ClassDef gives a class of this file
ClassLabels(a) ==
    IF a.is_test_file THEN {"Class", "Test", "TestClass"}
    ELSE IF a.is_example_file THEN {"Class", "Example", "ExampleClass"}
    ELSE {"Class"}

\* visit_ClassDef up to generic_visit
visit_ClassDef(g, a, tok) ==
    [g |-> MergeNode(g, ClassLabels(a),
                     [name |-> tok.name, file |-> a.file_path,
                      line |-> tok.line, end_line |-> tok.end_line]),
     a |-> [Descend(a, "ClassDef") EXCEPT !.current_class = tok.name,
                                         !.current_scope = "class"]]

\* function_name.startswith('__') and function_name.endswith('__')
IsDunder(function_name) ==
    StartsWith(function_name, n_us) /\ EndsWith(function_name, n_us)

\* the labels visit_FunctionDef gives a routine
FunctionLabels(a, function_name) ==
    (IF a.is_test_file THEN {"Function", "Test", "TestFunction"}
     ELSE IF a.is_example_file THEN {"Function", "Example", "ExampleFunction"}
     ELSE {"Function"})
    \cup (IF function_name = n_main THEN {"MainFunction"} ELSE {})
    \cup (IF a.current_class # None THEN {"ClassFunction"} ELSE {})

\* the query that tells visit_FunctionDef whether a reference node exists:
\*   MATCH (f{labels} {name: $name, is_reference: true}) RETURN f
ReferenceCheck(g, labels, function_name) ==
    MatchNodes(g, labels, [name |-> function_name, is_reference |-> TRUE])

\* the redirection of visit_FunctionDef:
\*   MATCH (ref:Function {name: $simple_name, is_reference: true})
\*   MATCH (defined:Function {name: $full_name, file: $file, is_reference: false})
\*   MATCH (caller)-[r:CALLS]->(ref)
\*   MERGE (caller)-[:CALLS {color: $edge_color}]->(defined)
\*   WITH ref, r DELETE r
RedirectCalls(g, simple_name, full_name, file) ==
    LET ref == MatchNodes(g, {"Function"}, [name |-> simple_name, is_reference |-> TRUE])
        defined == MatchNodes(g, {"Function"},
                              [name |-> full_name, file |-> file, is_reference |-> FALSE])
        r == {e \in g.rels : e.type = "CALLS" /\ e.dst \in ref}
        merged == MergeRels(g, "CALLS", {<<e.src, d>> : e \in r, d \in defined},
                            [color |-> CallsColor])
    IN  IF defined = {} THEN g
        ELSE [merged EXCEPT !.rels = @ \ r]

\* the containment edge of a method:
\*   MATCH (c:Class {name: $class_name, file: $file})
\*   MATCH (f:Function {name: $func_name, file: $file})
\*   MERGE (c)-[:CONTAINS {color: $edge_color}]->(f)
ContainFunction(g, class_name, func_name, file) ==
    MergeRels(g, "CONTAINS",
              MatchNodes(g, {"Class"}, [name |-> class_name, file |-> file])
                \X MatchNodes(g, {"Function"}, [name |-> func_name, file |-> file]),
              [color |-> ContainsColor])

\* end_line - line + 1 when both line numbers are known
FunctionLength(line, end_line) ==
    IF line >= 0 /\ end_line >= 0 THEN end_line - line + 1 ELSE 0

\* visit_FunctionDef up to generic_visit; a dunder routine returns at once
\* and none of its children is visited
visit_FunctionDef(g, a, tok, tokens) ==
    LET function_name == tok.name
        full_name == IF a.current_class # None
                     THEN a.current_class \o <<".">> \o function_name
                     ELSE function_name
        labels == FunctionLabels(a, function_name)
        result == ReferenceCheck(g, labels, function_name)
        g1 == MergeNode(g, labels,
                        [name |-> full_name, file |-> a.file_path,
                         is_reference |-> FALSE, line |-> tok.line,
                         end_line |-> tok.end_line,
                         length |-> FunctionLength(tok.line, tok.end_line)])
        g2 == IF result # {}
              THEN RedirectCalls(g1, function_name, full_name, a.file_path)
              ELSE g1
        g3 == IF a.current_class # None
              THEN ContainFunction(g2, a.current_class, full_name, a.file_path)
              ELSE g2
    IN  IF IsDunder(function_name)
        THEN [g |-> g, a |-> [a EXCEPT !.pos = AfterNode(tokens, a.pos)]]
        ELSE [g |-> g3,
              a |-> [Descend(a, "FunctionDef") EXCEPT !.current_function = full_name,
                                                     !.current_scope = "function"]]

\* a lookup that only finds defined routines
CallLookup_DefinedOnly(g, called_func) ==
    MatchNodes(g, {"Function"}, [name |-> called_func, is_reference |-> FALSE])

\* the lookup of visit_Call: MATCH (f:Function {name: $name}) RETURN f.file
CallLookup(g, called_func) ==
    MatchNodes(g, {"Function"}, [name |-> called_func])

\* the call edge to a known routine:
\*   MATCH (called:Function {name: $called_name, file: $known_file})
\*   MATCH (caller:Function {name: $caller_name, file: $caller_file})
\*   MERGE (caller)-[:CALLS {color: .., line: $line, args: $args}]->(called)
CallKnown(g, called_name, known_file, caller_name, caller_file, line, args) ==
    MergeRels(g, "CALLS",
              MatchNodes(g, {"Function"}, [name |-> caller_name, file |-> caller_file])
                \X MatchNodes(g, {"Function"}, [name |-> called_name, file |-> known_file]),
              [color |-> CallsColor, line |-> line, args |-> args])

\* the call edge to a reference node:
\*   MERGE (called:Function:ReferenceFunction {name: $called_name,
\*          is_reference: true, file: $file, line: $line, end_line: -1, length: 0})
\*   MATCH (caller:Function {name: $caller_name, file: $file})
\*   MERGE (caller)-[:CALLS {line: $line, args: $args}]->(called)
CallReference(g, called_name, caller_name, file, line, args) ==
    LET props == [name |-> called_name, is_reference |-> TRUE, file |-> file,
                  line |-> line, end_line |-> -1, length |-> 0]
        g1 == MergeNode(g, {"Function", "ReferenceFunction"}, props)
    IN  MergeRels(g1, "CALLS",
                  MatchNodes(g1, {"Function"}, [name |-> caller_name, file |-> file])
                    \X MatchNodes(g1, {"Function", "ReferenceFunction"}, props),
                  [line |-> line, args |-> args])

\* a filter without the test for built-ins
IsFiltered_StdlibOnly(tok) ==
    tok.module # None /\ is_stdlib_module(tok.module)

\* called_func in BUILTIN_FUNCTIONS, or is_stdlib_module(module_name)
IsFiltered(tok) ==
    \/ tok.name \in BUILTIN_FUNCTIONS
    \/ (tok.module # None /\ is_stdlib_module(tok.module))

\* visit_Call up to generic_visit; a filtered call returns at once and none
\* of its children is visited
visit_Call(g, a, tok, tokens) ==
    LET called_func == tok.name
        result == CallLookup(g, called_func)
        \* result[0]['file']; every Function node has a file, so it is never None
        known_file == g.nodes[FirstNode(result)].props.file
        g1 == IF called_func # None /\ a.current_function # None
              THEN IF result # {}
                   THEN CallKnown(g, called_func, known_file, a.current_function,
                                  a.file_path, tok.line, tok.args)
                   ELSE CallReference(g, called_func, a.current_function,
                                      a.file_path, tok.line, tok.args)
              ELSE g
    IN  IF IsFiltered(tok)
        THEN [g |-> g, a |-> [a EXCEPT !.pos = AfterNode(tokens, a.pos)]]
        ELSE [g |-> g1, a |-> Descend(a, "Call")]

\* the cased characters of the identifiers that occur
UpperLetters ==
    {"A", "B", "C", "D", "E", "F", "G", "H", "I", "J", "K", "L", "M",
     "N", "O", "P", "Q", "R", "S", "T", "U", "V", "W", "X", "Y", "Z"}

LowerLetters ==
    {"a", "b", "c", "d", "e", "f", "g", "h", "i", "j", "k", "l", "m",
     "n", "o", "p", "q", "r", "s", "t", "u", "v", "w", "x", "y", "z"}

\* str.isupper: there is a cased character and no cased character is
\* lower-case
isupper(name) ==
    /\ \E i \in 1..Len(name) : name[i] \in UpperLetters
    /\ \A i \in 1..Len(name) : name[i] \notin LowerLetters

\* name.isupper() and '_' in name and len(name) > 1
IsConstantName(name) ==
    /\ isupper(name)
    /\ \E i \in 1..Len(name) : name[i] = "_"
    /\ Len(name) > 1

\* _extract_constant_value: the rendering and the type tag of a value
_extract_constant_value(value_node) ==
    CASE value_node.kind = "Constant" ->
            [value |-> value_node.repr, type |-> value_node.type_name]
      [] value_node.kind = "USub" ->
            [value |-> "-" \o value_node.repr, type |-> value_node.type_name]
      [] OTHER ->
            [value |-> value_node.repr, type |-> "expression"]

\* _create_constant_node:
\*   MERGE (c:Constant {name, value, type, file, line, end_line, scope})
\* and, for a class or function container that has a name,
\*   MATCH (constant:Constant {name: $constant_name, file: $file, line: $line})
\*   MATCH (class:Class {name: $class_name, file: $file})
\*   MERGE (class)-[:DEFINES {color: $edge_color}]->(constant)
_create_constant_node(g, a, name, value, value_type, line_num, end_line_num, container_type, container_name) ==
    LET g1 == MergeNode(g, {"Constant"},
                        [name |-> name, value |-> value, type |-> value_type,
                         file |-> a.file_path, line |-> line_num,
                         end_line |-> end_line_num, scope |-> container_type])
        constant == MatchNodes(g1, {"Constant"},
                               [name |-> name, file |-> a.file_path, line |-> line_num])
        container ==
            IF container_type = "class"
            THEN MatchNodes(g1, {"Class"}, [name |-> container_name, file |-> a.file_path])
            ELSE MatchNodes(g1, {"Function"}, [name |-> container_name, file |-> a.file_path])
    IN  IF container_type \in {"class", "function"} /\ container_name # None
        THEN MergeRels(g1, "DEFINES", container \X constant, [color |-> DefinesColor])
        ELSE g1

\* the loop of visit_Assign over the targets of an assignment
RECURSIVE AssignTargets(_, _, _, _)
AssignTargets(g, a, tok, targets) ==
    IF targets = <<>> THEN g
    ELSE LET target == Head(targets)
             extracted == _extract_constant_value(tok.value)
             container_type == a.current_scope
             container_name ==
                 IF container_type = "class" THEN a.current_class
                 ELSE IF container_type = "function" THEN a.current_function
                 ELSE None
             g1 == IF target.kind = "Name" /\ IsConstantName(target.id)
                   THEN _create_constant_node(g, a, target.id, extracted.value,
                                              extracted.type, tok.line, tok.end_line,
                                              container_type, container_name)
                   ELSE g
         IN  AssignTargets(g1, a, tok, Tail(targets))

\* visit_Assign up to generic_visit; in a test file nothing is recorded
visit_Assign(g, a, tok) ==
    IF a.is_test_file
    THEN [g |-> g, a |-> Descend(a, "Assign")]
    ELSE [g |-> AssignTargets(g, a, tok, tok.targets), a |-> Descend(a, "Assign")]

\* the statement visit_Import and visit_ImportFrom send for one alias:
\*   MERGE (i:Import {props}) WITH i
\*   MATCH (f:Function {name: $func_name, file: $file})
\*   MERGE (f)-[:IMPORTS {color: $edge_color}]->(i)
\* func_name is current_function, which is None outside every routine, and
\* a null property matches no node
TrackImport(g, a, props) ==
    LET g1 == MergeNode(g, {"Import"}, props)
        i == MatchNodes(g1, {"Import"}, props)
        f == IF a.current_function = None THEN {}
             ELSE MatchNodes(g1, {"Function"},
                             [name |-> a.current_function, file |-> a.file_path])
    IN  MergeRels(g1, "IMPORTS", f \X i, [color |-> ImportsColor])

\* alias.asname or imported_name
AliasName(alias) == IF alias.asname # None THEN alias.asname ELSE alias.name

\* the loop of visit_Import over the aliases of the statement
RECURSIVE ImportNames(_, _, _)
ImportNames(g, a, names) ==
    IF names = <<>> THEN g
    ELSE ImportNames(TrackImport(g, a, [name |-> Head(names).name,
                                        alias |-> AliasName(Head(names)),
                                        file |-> a.file_path]),
                     a, Tail(names))

\* visit_Import up to generic_visit; only a test file tracks its imports
visit_Import(g, a, tok) ==
    [g |-> IF a.is_test_file THEN ImportNames(g, a, tok.names) ELSE g,
     a |-> Descend(a, "Import")]

\* the loop of visit_ImportFrom over the aliases of the statement
RECURSIVE ImportFromNames(_, _, _, _)
ImportFromNames(g, a, module, names) ==
    IF names = <<>> THEN g
    ELSE ImportFromNames(TrackImport(g, a, [name |-> Head(names).name,
                                            module |-> module,
                                            alias |-> AliasName(Head(names)),
                                            file |-> a.file_path]),
                         a, module, Tail(names))

\* visit_ImportFrom up to generic_visit
visit_ImportFrom(g, a, tok) ==
    [g |-> IF a.is_test_file THEN ImportFromNames(g, a, tok.module, tok.names) ELSE g,
     a |-> Descend(a, "ImportFrom")]

\* the end of generic_visit and what the visit_* method does after it
Return(g, a) ==
    LET frame == a.frames[Len(a.frames)]
        popped == [a EXCEPT !.pos = @ + 1,
                            !.frames = SubSeq(@, 1, Len(@) - 1)]
    IN  [g |-> g,
         a |-> CASE frame.kind = "ClassDef" ->
                      [popped EXCEPT !.current_class = None,
                                     !.current_scope = frame.previous_scope]
                 [] frame.kind = "FunctionDef" ->
                      [popped EXCEPT !.current_function = None,
                                     !.current_scope = frame.previous_scope]
                 [] OTHER -> popped]

\* the test routines and the routines that are not test routines:
\*   (test:TestFunction), (prod:Function) WHERE NOT prod:TestFunction
TestFunctions(g) == MatchNodes(g, {"TestFunction"}, <<>>)

ProdFunctions(g) ==
    {i \in MatchNodes(g, {"Function"}, <<>>) : "TestFunction" \notin g.nodes[i].labels}

\* the naming statement of process_test_relationships, for every prefix
LinkByNaming(g) ==
    MergeRels(g, "TESTS",
              {<<t, p>> \in TestFunctions(g) \X ProdFunctions(g) :
                  \E prefix \in TEST_FUNCTION_PREFIXES :
                     /\ StartsWith(g.nodes[t].props.name, prefix)
                     /\ g.nodes[p].props.name =
                          SubSeq(g.nodes[t].props.name, Len(prefix) + 1,
                                 Len(g.nodes[t].props.name))},
              [method |-> "naming_pattern", color |-> TestsColor])

\* the import statement of process_test_relationships
LinkByImports(g) ==
    MergeRels(g, "TESTS",
              {<<t, p>> \in TestFunctions(g) \X ProdFunctions(g) :
                  \E e \in g.rels :
                     /\ e.type = "IMPORTS" /\ e.src = t
                     /\ "Import" \in g.nodes[e.dst].labels
                     /\ g.nodes[e.dst].props.name = g.nodes[p].props.name},
              [method |-> "import", color |-> TestsColor])

\* the call statement of process_test_relationships
LinkByCalls(g) ==
    MergeRels(g, "TESTS",
              {<<t, p>> \in TestFunctions(g) \X ProdFunctions(g) :
                  \E e \in g.rels : e.type = "CALLS" /\ e.src = t /\ e.dst = p},
              [method |-> "call", color |-> TestsColor])

\* process_test_relationships: the naming, import and call queries
process_test_relationships(g, a) ==
    IF ~a.is_test_file THEN g
    ELSE LinkByCalls(LinkByImports(LinkByNaming(g)))

\* NodeVisitor.visit: dispatch on the node at the visitor's position
Visit(g, a, tokens) ==
    LET tok == tokens[a.pos]
    IN  CASE tok.op = "ClassDef" -> visit_ClassDef(g, a, tok)
          [] tok.op = "FunctionDef" -> visit_FunctionDef(g, a, tok, tokens)
          [] tok.op = "Call" -> visit_Call(g, a, tok, tokens)
          [] tok.op = "Assign" -> visit_Assign(g, a, tok)
          [] tok.op = "Import" -> visit_Import(g, a, tok)
          [] tok.op = "ImportFrom" -> visit_ImportFrom(g, a, tok)
          [] OTHER -> Return(g, a)

(***************************************************************************)
(* analysis.py and scanner.main                                            *)
(***************************************************************************)
\* analyzer.visit(tree): the graph after the whole tree has been visited
RECURSIVE VisitAll(_, _, _)
VisitAll(g, a, tokens) ==
    IF a.pos > Len(tokens) THEN g
    ELSE VisitAll(Visit(g, a, tokens).g, Visit(g, a, tokens).a, tokens)

\* the classification analyze_file registers:
\*   "test" if is_test_flag else "example" if is_example_flag else "production"
file_type(is_test_flag, is_example_flag) ==
    IF is_test_flag THEN "test"
    ELSE IF is_example_flag THEN "example"
    ELSE "production"

\* an except clause for every exception
Caught_Any(error) == TRUE

\* an except clause for SyntaxError alone
Caught_SyntaxOnly(error) == error = "SyntaxError"

\* the exceptions analyze_file catches: SyntaxError and UnicodeDecodeError
Caught(error) == error \in {"SyntaxError", "UnicodeDecodeError"}

\* stats.register_file_error(rel_path, error_type, error_msg) as analyze_file
\* calls it: str(e) for a SyntaxError, a fixed text for a UnicodeDecodeError
register_file_error(file) ==
    [file |-> file.path,
     type |-> file.error,
     message |-> IF file.error = "SyntaxError" THEN file.message
                 ELSE "Unable to decode file"]

\* a test that lets every file through
RunsLinker_Always(is_test_flag) == TRUE

\* "if is_test_flag:" before analyzer.process_test_relationships
RunsLinker(is_test_flag) == is_test_flag

\* analyze_file: a file that open/ast.parse rejects adds nothing
analyze_file(g, file) ==
    LET is_test_flag == is_test_file(file.path)
        a == CodeAnalyzer(file.path, is_test_flag)
        g1 == VisitAll(g, a, file.tokens)
    IN  IF file.error # "none" THEN g
        ELSE IF RunsLinker(is_test_flag) THEN process_test_relationships(g1, a) ELSE g1

\* analyze_directory: analyze_file for every file in walking order
RECURSIVE analyze_directory(_, _)
analyze_directory(g, files) ==
    IF files = <<>> THEN g
    ELSE analyze_directory(analyze_file(g, Head(files)), Tail(files))

(***************************************************************************)
(* The scan as a state machine                                             *)
(***************************************************************************)
VARIABLES
    graph,      \* the content of the graph store
    tree,       \* the files of the scanned directory, in walking order
    pc,         \* "idle", "walk" (between two files), "visit", "done",
                \* "failed" (an exception left analyze_directory)
    file_idx,   \* the index in tree of the file being analysed
    analyzer,   \* the CodeAnalyzer of the file being analysed
    last,       \* the syntax-tree node visited by the latest step
    stale,      \* when main began the store held a node of a file that is
                \* not in the tree now scanned
    project,    \* the files of the project directory
    errors,     \* StatsCollector.errors of the running scan
    driver,     \* base.driver of the query server: "connected" or "None"
    response,   \* what the latest step returned, if it was a query
    linked      \* the files for which the running scan has called
                \* process_test_relationships, in the order of the calls

vars == <<graph, tree, pc, file_idx, analyzer, last, stale, project, errors,
          driver, response, linked>>

NoToken == [End EXCEPT !.op = "None"]

\* the latest step was not a query
NoResponse ==
    [tool |-> "none", status |-> "none", rows |-> <<>>, source_fn |-> None,
     target_fn |-> None, max_depth |-> 0, failed |-> FALSE, scanning |-> FALSE]

\* nothing has been scanned and no query has been made
Idle ==
    /\ graph = EmptyGraph
    /\ tree = <<>>
    /\ pc = "idle"
    /\ file_idx = 1
    /\ analyzer = NoAnalyzer
    /\ last = NoToken
    /\ stale = FALSE
    /\ errors = <<>>
    /\ response = NoResponse
    /\ linked = <<>>

Init ==
    /\ Idle
    /\ project = Files
    /\ driver = "connected"

\* scanner.main, started by hand or by rescan_codebase: clear the store,
\* then walk the project directory as it is now
main ==
    /\ pc \in {"idle", "done", "failed"}
    /\ tree' \in Trees(project)
    /\ graph' = clear_database(graph)
    /\ pc' = "walk"
    /\ file_idx' = 1
    /\ analyzer' = NoAnalyzer
    /\ last' = NoToken
    /\ stale' = \E i \in 1..Len(graph.nodes) :
                    \A k \in 1..Len(tree') : graph.nodes[i].props.file # tree'[k].path
    /\ errors' = <<>>
    /\ response' = NoResponse
    /\ linked' = <<>>
    /\ UNCHANGED <<project, driver>>

\* analyze_file up to analyzer.visit(tree); for a file that open or
\* ast.parse rejects, the whole of analyze_file
analyze_file_begin ==
    /\ pc = "walk"
    /\ file_idx <= Len(tree)
    /\ IF tree[file_idx].error = "none"
       THEN /\ analyzer' = CodeAnalyzer(tree[file_idx].path,
                                        is_test_file(tree[file_idx].path))
            /\ pc' = "visit"
            /\ UNCHANGED <<file_idx, errors>>
       ELSE IF Caught(tree[file_idx].error)
       THEN /\ errors' = Append(errors, register_file_error(tree[file_idx]))
            /\ file_idx' = file_idx + 1
            /\ UNCHANGED <<analyzer, pc>>
       ELSE /\ pc' = "failed"
            /\ UNCHANGED <<analyzer, file_idx, errors>>
    /\ last' = NoToken
    /\ response' = NoResponse
    /\ UNCHANGED <<graph, tree, stale, project, driver, linked>>

\* the node the visitor is at
CurrentToken == tree[file_idx].tokens[analyzer.pos]

\* analyzer.visit reaches a class definition
VisitClassDef ==
    /\ pc = "visit"
    /\ analyzer.pos <= Len(tree[file_idx].tokens)
    /\ CurrentToken.op = "ClassDef"
    /\ graph' = visit_ClassDef(graph, analyzer, CurrentToken).g
    /\ analyzer' = visit_ClassDef(graph, analyzer, CurrentToken).a
    /\ last' = CurrentToken
    /\ response' = NoResponse
    /\ UNCHANGED <<tree, pc, file_idx, stale, project, errors, driver, linked>>

\* analyzer.visit reaches a function definition
VisitFunctionDef ==
    /\ pc = "visit"
    /\ analyzer.pos <= Len(tree[file_idx].tokens)
    /\ CurrentToken.op = "FunctionDef"
    /\ graph' = visit_FunctionDef(graph, analyzer, CurrentToken, tree[file_idx].tokens).g
    /\ analyzer' = visit_FunctionDef(graph, analyzer, CurrentToken, tree[file_idx].tokens).a
    /\ last' = CurrentToken
    /\ response' = NoResponse
    /\ UNCHANGED <<tree, pc, file_idx, stale, project, errors, driver, linked>>

\* analyzer.visit reaches a call
VisitCall ==
    /\ pc = "visit"
    /\ analyzer.pos <= Len(tree[file_idx].tokens)
    /\ CurrentToken.op = "Call"
    /\ graph' = visit_Call(graph, analyzer, CurrentToken, tree[file_idx].tokens).g
    /\ analyzer' = visit_Call(graph, analyzer, CurrentToken, tree[file_idx].tokens).a
    /\ last' = CurrentToken
    /\ response' = NoResponse
    /\ UNCHANGED <<tree, pc, file_idx, stale, project, errors, driver, linked>>

\* analyzer.visit reaches an assignment
VisitAssign ==
    /\ pc = "visit"
    /\ analyzer.pos <= Len(tree[file_idx].tokens)
    /\ CurrentToken.op = "Assign"
    /\ graph' = visit_Assign(graph, analyzer, CurrentToken).g
    /\ analyzer' = visit_Assign(graph, analyzer, CurrentToken).a
    /\ last' = CurrentToken
    /\ response' = NoResponse
    /\ UNCHANGED <<tree, pc, file_idx, stale, project, errors, driver, linked>>

\* analyzer.visit reaches an import statement
VisitImport ==
    /\ pc = "visit"
    /\ analyzer.pos <= Len(tree[file_idx].tokens)
    /\ CurrentToken.op = "Import"
    /\ graph' = visit_Import(graph, analyzer, CurrentToken).g
    /\ analyzer' = visit_Import(graph, analyzer, CurrentToken).a
    /\ last' = CurrentToken
    /\ response' = NoResponse
    /\ UNCHANGED <<tree, pc, file_idx, stale, project, errors, driver, linked>>

\* analyzer.visit reaches a from-import statement
VisitImportFrom ==
    /\ pc = "visit"
    /\ analyzer.pos <= Len(tree[file_idx].tokens)
    /\ CurrentToken.op = "ImportFrom"
    /\ graph' = visit_ImportFrom(graph, analyzer, CurrentToken).g
    /\ analyzer' = visit_ImportFrom(graph, analyzer, CurrentToken).a
    /\ last' = CurrentToken
    /\ response' = NoResponse
    /\ UNCHANGED <<tree, pc, file_idx, stale, project, errors, driver, linked>>

\* the children of a node have been visited
VisitReturn ==
    /\ pc = "visit"
    /\ analyzer.pos <= Len(tree[file_idx].tokens)
    /\ CurrentToken.op = "End"
    /\ graph' = Return(graph, analyzer).g
    /\ analyzer' = Return(graph, analyzer).a
    /\ last' = CurrentToken
    /\ response' = NoResponse
    /\ UNCHANGED <<tree, pc, file_idx, stale, project, errors, driver, linked>>

\* analyze_file after analyzer.visit(tree), and the next round of the loop
\* of analyze_directory
analyze_file_end ==
    /\ pc = "visit"
    /\ analyzer.pos > Len(tree[file_idx].tokens)
    /\ graph' = IF RunsLinker(analyzer.is_test_file)
                THEN process_test_relationships(graph, analyzer)
                ELSE graph
    /\ linked' = IF RunsLinker(analyzer.is_test_file)
                 THEN Append(linked, analyzer.file_path)
                 ELSE linked
    /\ analyzer' = NoAnalyzer
    /\ file_idx' = file_idx + 1
    /\ pc' = "walk"
    /\ last' = NoToken
    /\ response' = NoResponse
    /\ UNCHANGED <<tree, stale, project, errors, driver>>

\* analyze_directory returns and main ends
main_end ==
    /\ pc = "walk"
    /\ file_idx > Len(tree)
    /\ pc' = "done"
    /\ response' = NoResponse
    /\ UNCHANGED <<graph, tree, file_idx, analyzer, last, stale, project, errors, driver, linked>>

Next ==
    \/ main
    \/ analyze_file_begin
    \/ VisitClassDef
    \/ VisitFunctionDef
    \/ VisitCall
    \/ VisitAssign
    \/ VisitImport
    \/ VisitImportFrom
    \/ VisitReturn
    \/ analyze_file_end
    \/ main_end

Spec == Init /\ [][Next]_vars

\* tests/test_bad.py, which ast.parse rejects
\*   1 def test_bad(:
File_test_bad ==
    [path |-> << n_tests, <<"t", "e", "s", "t", "_", "b", "a", "d">> \o n_py >>,
     error |-> "SyntaxError", message |-> "invalid syntax (test_bad.py, line 1)",
     tokens |-> <<>>]

\* a project with a test unit, a test unit that does not parse, an example
\* and a production file
LinkerFiles == {File_test_calc, File_test_bad, File_myexamples, File_consts}

\* show.py
\*   1 def show():
\*   2     print(helper(1))
File_show ==
    [path |-> << n_show \o n_py >>,
     error |-> "none", message |-> "",
     tokens |-> << FunctionDef(n_show, 1, 2),
                     Call(n_print, None, 2, <<"Call(helper)">>),
                       Call(n_helper, None, 2, <<"1">>), End,
                     End,
                   End >>]

\* a project with a call of a project routine in the arguments of a call
\* of a built-in
NestFiles == {File_show, File_helper, File_calc, File_test_calc}

\* a project with a class, routines, constants and a test unit
FailFiles == {File_consts, File_calc, File_test_calc}

\* the scan of a project with files of every classification
InitClassify ==
    /\ Idle
    /\ project = ClassifyFiles
    /\ driver = "connected"

SpecClassify == InitClassify /\ [][Next]_vars

\* the scan of a project with test units
InitLink ==
    /\ Idle
    /\ project = LinkFiles
    /\ driver = "connected"

SpecLink == InitLink /\ [][Next]_vars

\* the scan of a project with test units that parse and that do not
InitLinker ==
    /\ Idle
    /\ project = LinkerFiles
    /\ driver = "connected"

SpecLinker == InitLinker /\ [][Next]_vars

\* the scan of a project with nested calls
InitNest ==
    /\ Idle
    /\ project = NestFiles
    /\ driver = "connected"

SpecNest == InitNest /\ [][Next]_vars

\* the scan of a project with nested definitions
InitScope ==
    /\ Idle
    /\ project = ScopeFiles
    /\ driver = "connected"

SpecScope == InitScope /\ [][Next]_vars

TypeOK ==
    /\ pc \in {"idle", "walk", "visit", "done", "failed"}
    /\ \A r \in graph.rels : r.src \in 1..Len(graph.nodes) /\ r.dst \in 1..Len(graph.nodes)

(***************************************************************************)
(* mcp_tools: the query tools, which any client may call at any time.      *)
(* What a tool returns depends on the store alone, so a call made right    *)
(* after another call adds nothing to a call made in its place: the tools  *)
(* are called from the states in which the latest step was a scan step.    *)
(***************************************************************************)
\* largest max_depth a client passes to transitive_calls
MaxDepth == 3

\* the LIMIT of the query of transitive_calls
PathLimit == 10

\* the names a client asks transitive_calls about
QuerySources == {n_top, n_mid}

QueryTargets == {n_leaf, n_low}

\* base.q: [] when there is no driver, [] when the store call raises,
\* else the rows of the query
q(drv, failed, rows) ==
    IF drv = "None" THEN [status |-> "ok", rows |-> <<>>]
    ELSE IF failed THEN [status |-> "ok", rows |-> <<>>]
    ELSE [status |-> "ok", rows |-> rows]

\* "with driver.session() as session: session.run(query).data()" of
\* list_files and file_contents: None has no attribute session, and an
\* exception of the store call is not caught
driver_session(drv, failed, rows) ==
    IF drv = "None" \/ failed THEN [status |-> "raised", rows |-> <<>>]
    ELSE [status |-> "ok", rows |-> rows]

\* the elements of a finite set, one after the other
RECURSIVE SeqOf(_)
SeqOf(S) ==
    IF S = {} THEN <<>>
    ELSE LET x == CHOOSE y \in S : TRUE
         IN  <<x>> \o SeqOf(S \ {x})

\* the query of get_test_coverage_ratio.  The first WITH has no grouping
\* key and yields one row even when nothing matches; the second MATCH
\* yields no row when no function is tested, and the second WITH, which
\* groups by total_functions, then yields no row either.
get_test_coverage_ratio(g) ==
    LET functions == {f \in MatchNodes(g, {"Function"}, <<>>) :
                         "TestFunction" \notin g.nodes[f].labels}
        tested == {f \in functions :
                      \E e \in g.rels :
                         /\ e.type = "TESTS" /\ e.dst = f
                         /\ "TestFunction" \in g.nodes[e.src].labels}
        total_functions == Cardinality(functions)
        tested_functions == Cardinality(tested)
    IN  IF tested = {} THEN <<>>
        ELSE << [total_functions |-> total_functions,
                 tested_functions |-> tested_functions,
                 \* toFloat(tested_functions) / total_functions, as a fraction
                 coverage_ratio |->
                     IF total_functions > 0
                     THEN [num |-> tested_functions, den |-> total_functions]
                     ELSE [num |-> 0, den |-> 1]] >>

\* the paths (a)-[:CALLS*n..n]->(b) that start with one of the paths given:
\* a path is the sequence of its relationships, none of which occurs twice
RECURSIVE Extend(_, _, _)
Extend(g, paths, n) ==
    IF n = 0 THEN paths
    ELSE Extend(g,
                UNION {{Append(p, e) :
                          e \in {f \in g.rels :
                                    /\ f.type = "CALLS"
                                    /\ f.src = p[Len(p)].dst
                                    /\ \A i \in 1..Len(p) : p[i] # f}} :
                       p \in paths},
                n - 1)

\* the nodes of a path: the start node and the end node of each relationship
PathNodes(p) == <<p[1].src>> \o [i \in 1..Len(p) |-> p[i].dst]

\* MATCH path = (source:Function {name: $source_fn})-[:CALLS*1..max_depth]->
\*              (target:Function {name: $target_fn})
\* WHERE length(path) <= $max_depth
MatchPaths(g, source_fn, target_fn, max_depth) ==
    LET source == MatchNodes(g, {"Function"}, [name |-> source_fn])
        target == MatchNodes(g, {"Function"}, [name |-> target_fn])
        first == {<<e>> : e \in {f \in g.rels : f.type = "CALLS" /\ f.src \in source}}
    IN  {p \in UNION {Extend(g, first, n - 1) : n \in 1..max_depth} :
            p[Len(p)].dst \in target /\ Len(p) <= max_depth}

\* ORDER BY path_length: the shorter paths first, paths of one length in
\* some order
RECURSIVE OrderByLength(_, _, _)
OrderByLength(paths, n, max_depth) ==
    IF n > max_depth THEN <<>>
    ELSE SeqOf({p \in paths : Len(p) = n}) \o OrderByLength(paths, n + 1, max_depth)

\* the subsets of S that have k elements
RECURSIVE KSubsets(_, _)
KSubsets(S, k) ==
    IF k = 0 THEN {{}}
    ELSE IF S = {} THEN {}
    ELSE LET x == CHOOSE y \in S : TRUE
         IN  KSubsets(S \ {x}, k) \cup {T \cup {x} : T \in KSubsets(S \ {x}, k - 1)}

\* a query without LIMIT
Limit_None(paths, limit) == {paths}

\* LIMIT: the sets of paths that the first rows of an ordering may be.
\* Paths shorter than the length at which the limit is reached are all
\* kept, longer ones are all dropped, and of the paths of that length any
\* subset that fills the limit may be kept.
Limit(paths, limit) ==
    IF Cardinality(paths) <= limit THEN {paths}
    ELSE LET at == CHOOSE n \in 1..(MaxDepth + 1) :
                      /\ Cardinality({p \in paths : Len(p) < n}) < limit
                      /\ Cardinality({p \in paths : Len(p) <= n}) >= limit
             shorter == {p \in paths : Len(p) < at}
         IN  {shorter \cup (({p \in paths : Len(p) = at}) \ drop) :
                 drop \in KSubsets({p \in paths : Len(p) = at},
                                   Cardinality({p \in paths : Len(p) <= at}) - limit)}

\* RETURN function_names, length(path) AS path_length, function_files
PathRow(g, p) ==
    [function_names |-> [i \in 1..(Len(p) + 1) |-> g.nodes[PathNodes(p)[i]].props.name],
     path_length |-> Len(p),
     function_files |-> [i \in 1..(Len(p) + 1) |-> g.nodes[PathNodes(p)[i]].props.file]]

\* the query of transitive_calls: every sequence of rows it may return
transitive_calls(g, source_fn, target_fn, max_depth) ==
    {[i \in 1..Cardinality(kept) |->
          PathRow(g, OrderByLength(kept, 1, max_depth)[i])] :
        kept \in Limit(MatchPaths(g, source_fn, target_fn, max_depth), PathLimit)}

\* the query of list_files: MATCH (f:File) RETURN f.path AS file, ...
list_files(g) ==
    [i \in 1..Cardinality(MatchNodes(g, {"File"}, <<>>)) |->
        [file |-> g.nodes[SeqOf(MatchNodes(g, {"File"}, <<>>))[i]].props.path]]

\* a client calls get_test_coverage_ratio
ToolCoverageRatio ==
    /\ response = NoResponse
    /\ \E failed \in BOOLEAN :
          response' = [tool |-> "get_test_coverage_ratio",
                       status |-> q(driver, failed, get_test_coverage_ratio(graph)).status,
                       rows |-> q(driver, failed, get_test_coverage_ratio(graph)).rows,
                       source_fn |-> None, target_fn |-> None, max_depth |-> 0,
                       failed |-> failed, scanning |-> pc \in {"walk", "visit"}]
    /\ UNCHANGED <<graph, tree, pc, file_idx, analyzer, last, stale, project, errors, driver, linked>>

\* a client calls transitive_calls
ToolTransitiveCalls ==
    /\ response = NoResponse
    /\ \E source_fn \in QuerySources, target_fn \in QueryTargets, max_depth \in 0..MaxDepth :
       \E rows \in transitive_calls(graph, source_fn, target_fn, max_depth) :
       \E failed \in BOOLEAN :
          response' = [tool |-> "transitive_calls",
                       status |-> q(driver, failed, rows).status,
                       rows |-> q(driver, failed, rows).rows,
                       source_fn |-> source_fn, target_fn |-> target_fn,
                       max_depth |-> max_depth,
                       failed |-> failed, scanning |-> pc \in {"walk", "visit"}]
    /\ UNCHANGED <<graph, tree, pc, file_idx, analyzer, last, stale, project, errors, driver, linked>>

\* a client calls list_files
ToolListFiles ==
    /\ response = NoResponse
    /\ \E failed \in BOOLEAN :
          response' = [tool |-> "list_files",
                       status |-> driver_session(driver, failed, list_files(graph)).status,
                       rows |-> driver_session(driver, failed, list_files(graph)).rows,
                       source_fn |-> None, target_fn |-> None, max_depth |-> 0,
                       failed |-> failed, scanning |-> pc \in {"walk", "visit"}]
    /\ UNCHANGED <<graph, tree, pc, file_idx, analyzer, last, stale, project, errors, driver, linked>>

\* the scan and the query tools side by side
NextQuery ==
    \/ main
    \/ analyze_file_begin
    \/ VisitClassDef
    \/ VisitFunctionDef
    \/ VisitCall
    \/ VisitAssign
    \/ VisitImport
    \/ VisitImportFrom
    \/ VisitReturn
    \/ analyze_file_end
    \/ main_end
    \/ ToolCoverageRatio
    \/ ToolTransitiveCalls
    \/ ToolListFiles

\* the query server found the store at its start, or it did not
InitQuery ==
    /\ Idle
    /\ project = QueryFiles
    /\ driver \in {"connected", "None"}

SpecQuery == InitQuery /\ [][NextQuery]_vars

(***************************************************************************)
(* mcp_tools: the anomaly and duplication queries                          *)
(***************************************************************************)
\* the characters of the paths that occur, in the order of their code points
Alphabet ==
    <<".", "/", "0", "1", "2", "3", "4", "5", "6", "7", "8", "9",
      "A", "B", "C", "D", "E", "F", "G", "H", "I", "J", "K", "L", "M",
      "N", "O", "P", "Q", "R", "S", "T", "U", "V", "W", "X", "Y", "Z", "_",
      "a", "b", "c", "d", "e", "f", "g", "h", "i", "j", "k", "l", "m",
      "n", "o", "p", "q", "r", "s", "t", "u", "v", "w", "x", "y", "z">>

\* the place of a character in the order of the code points
CodePoint(c) == CHOOSE i \in 1..Len(Alphabet) : Alphabet[i] = c

\* the stored file property: the segments of a path joined by "/"
RECURSIVE JoinPath(_)
JoinPath(path) ==
    IF Len(path) = 0 THEN <<>>
    ELSE IF Len(path) = 1 THEN path[1]
    ELSE path[1] \o <<"/">> \o JoinPath(Tail(path))

\* the order of strings in ORDER BY: s comes before t
RECURSIVE StringLess(_, _)
StringLess(s, t) ==
    IF t = <<>> THEN FALSE
    ELSE IF s = <<>> THEN TRUE
    ELSE IF Head(s) = Head(t) THEN StringLess(Tail(s), Tail(t))
    ELSE CodePoint(Head(s)) < CodePoint(Head(t))

\* ORDER BY f.file, f.line: node i comes before node j
FileLineLess(g, i, j) ==
    \/ StringLess(JoinPath(g.nodes[i].props.file), JoinPath(g.nodes[j].props.file))
    \/ /\ g.nodes[i].props.file = g.nodes[j].props.file
       /\ g.nodes[i].props.line < g.nodes[j].props.line

\* a sequence of node ids ordered by file and line, with one more id put in
\* its place
RECURSIVE InsertByFileLine(_, _, _)
InsertByFileLine(g, ids, i) ==
    IF ids = <<>> THEN <<i>>
    ELSE IF FileLineLess(g, i, Head(ids)) THEN <<i>> \o ids
    ELSE <<Head(ids)>> \o InsertByFileLine(g, Tail(ids), i)

\* ORDER BY f.file, f.line of the rows of a MATCH, one node id to a row
RECURSIVE OrderByFileLine(_, _)
OrderByFileLine(g, ids) ==
    IF ids = <<>> THEN <<>>
    ELSE InsertByFileLine(g, OrderByFileLine(g, Tail(ids)), Head(ids))

\* coalesce(f.is_reference, false) = false
NotReference(g, f) ==
    IF "is_reference" \in DOMAIN g.nodes[f].props
    THEN g.nodes[f].props.is_reference = FALSE
    ELSE TRUE

\* the query of uncalled_functions with its pattern read as (:Function):
\*   MATCH (f:Function)
\*   WHERE coalesce(f.is_reference, false) = false
\*     AND NOT (():Function)-[:CALLS]->(f)
\*   RETURN f.name AS name, f.file AS file, f.line AS line, f.end_line AS end_line
\*   ORDER BY f.file, f.line
uncalled_functions(g) ==
    LET f == {i \in MatchNodes(g, {"Function"}, <<>>) :
                 /\ NotReference(g, i)
                 /\ ~\E e \in g.rels :
                       /\ e.type = "CALLS" /\ e.dst = i
                       /\ "Function" \in g.nodes[e.src].labels}
        ordered == OrderByFileLine(g, SeqOf(f))
    IN  [k \in 1..Len(ordered) |->
            [name |-> g.nodes[ordered[k]].props.name,
             file |-> g.nodes[ordered[k]].props.file,
             line |-> g.nodes[ordered[k]].props.line,
             end_line |-> g.nodes[ordered[k]].props.end_line]]

\* the query of recursive_functions, one row for every matching relationship:
\*   MATCH (f:Function)-[:CALLS]->(f2:Function)
\*   WHERE f = f2 AND coalesce(f.is_reference, false) = false
\*   RETURN f.name AS name, f.file AS file, f.line AS line
\*   ORDER BY f.file, f.line
recursive_functions(g) ==
    LET r == SeqOf({e \in g.rels :
                       /\ e.type = "CALLS"
                       /\ "Function" \in g.nodes[e.src].labels
                       /\ "Function" \in g.nodes[e.dst].labels
                       /\ e.src = e.dst
                       /\ NotReference(g, e.src)})
        ordered == OrderByFileLine(g, [k \in 1..Len(r) |-> r[k].src])
    IN  [k \in 1..Len(ordered) |->
            [name |-> g.nodes[ordered[k]].props.name,
             file |-> g.nodes[ordered[k]].props.file,
             line |-> g.nodes[ordered[k]].props.line]]

\* the limits a client passes to the duplication queries; 10 is the default
QueryLimits == {1, 2, 10}

\* "with get_db_session() as session: session.run(query).data()" of the
\* constant tools: a driver of its own, and no except clause
get_db_session(failed, rows) ==
    IF failed THEN [status |-> "raised", rows |-> <<>>]
    ELSE [status |-> "ok", rows |-> rows]

\* the ids of a set of nodes in the order of a MATCH
RECURSIVE InMatchOrder(_)
InMatchOrder(ids) ==
    IF ids = {} THEN <<>>
    ELSE <<FirstNode(ids)>> \o InMatchOrder(ids \ {FirstNode(ids)})

\* a filter that keeps every group
Repetitive_Any(constants) == TRUE

\* WHERE size(constants) > 1
Repetitive(constants) == Len(constants) > 1

\* ORDER BY count DESC: every order of the rows in which no row comes
\* before a row with a larger count
OrderByCountDesc(rows) ==
    {s \in [1..Cardinality(rows) -> rows] :
        /\ \A i, j \in 1..Cardinality(rows) : i # j => s[i] # s[j]
        /\ \A i \in 1..(Cardinality(rows) - 1) : s[i].count >= s[i + 1].count}

\* LIMIT $limit
LimitRows(s, limit) == SubSeq(s, 1, IF Len(s) < limit THEN Len(s) ELSE limit)

\* the query of repetitive_constants: every sequence of rows it may return
\*   MATCH (c1:Constant)
\*   WITH c1.value AS value, collect(c1) AS constants
\*   WHERE size(constants) > 1
\*   RETURN value, [c in constants | c.type][0] AS type, size(constants) AS count,
\*          [c in constants | {name, file, line, scope}] AS occurrences
\*   ORDER BY count DESC LIMIT $limit
repetitive_constants(g, limit) ==
    LET c1 == MatchNodes(g, {"Constant"}, <<>>)
        collect(value) == InMatchOrder({c \in c1 : g.nodes[c].props.value = value})
        row(value) ==
            [value |-> value,
             type |-> g.nodes[collect(value)[1]].props.type,
             count |-> Len(collect(value)),
             occurrences |->
                 [k \in 1..Len(collect(value)) |->
                     [name |-> g.nodes[collect(value)[k]].props.name,
                      file |-> g.nodes[collect(value)[k]].props.file,
                      line |-> g.nodes[collect(value)[k]].props.line,
                      scope |-> g.nodes[collect(value)[k]].props.scope]]]
        rows == {row(value) : value \in {v \in {g.nodes[c].props.value : c \in c1} :
                                            Repetitive(collect(v))}}
    IN  {LimitRows(s, limit) : s \in OrderByCountDesc(rows)}

\* the query of repetitive_constant_names: every sequence of rows it may
\* return
\*   MATCH (c1:Constant)
\*   WITH c1.name AS name, collect(c1) AS constants
\*   WHERE size(constants) > 1
\*   RETURN name, size(constants) AS count,
\*          [c in constants | {value, type, file, line, scope}] AS occurrences
\*   ORDER BY count DESC LIMIT $limit
repetitive_constant_names(g, limit) ==
    LET c1 == MatchNodes(g, {"Constant"}, <<>>)
        collect(name) == InMatchOrder({c \in c1 : g.nodes[c].props.name = name})
        row(name) ==
            [name |-> name,
             count |-> Len(collect(name)),
             occurrences |->
                 [k \in 1..Len(collect(name)) |->
                     [value |-> g.nodes[collect(name)[k]].props.value,
                      type |-> g.nodes[collect(name)[k]].props.type,
                      file |-> g.nodes[collect(name)[k]].props.file,
                      line |-> g.nodes[collect(name)[k]].props.line,
                      scope |-> g.nodes[collect(name)[k]].props.scope]]]
        rows == {row(name) : name \in {n \in {g.nodes[c].props.name : c \in c1} :
                                          Repetitive(collect(n))}}
    IN  {LimitRows(s, limit) : s \in OrderByCountDesc(rows)}

\* a client calls uncalled_functions; the store takes the node pattern
\* (():Function) of the statement for (:Function), or it rejects the
\* statement, which the Cypher grammar of node patterns does not derive,
\* and q turns the exception into []
ToolUncalledFunctions ==
    /\ response = NoResponse
    /\ \E failed \in BOOLEAN, rejected \in BOOLEAN :
          response' = [tool |-> "uncalled_functions",
                       status |-> q(driver, failed \/ rejected,
                                    uncalled_functions(graph)).status,
                       rows |-> q(driver, failed \/ rejected,
                                  uncalled_functions(graph)).rows,
                       source_fn |-> None, target_fn |-> None, max_depth |-> 0,
                       failed |-> failed, scanning |-> pc \in {"walk", "visit"},
                       rejected |-> rejected]
    /\ UNCHANGED <<graph, tree, pc, file_idx, analyzer, last, stale, project, errors, driver, linked>>

\* a client calls recursive_functions
ToolRecursiveFunctions ==
    /\ response = NoResponse
    /\ \E failed \in BOOLEAN :
          response' = [tool |-> "recursive_functions",
                       status |-> q(driver, failed, recursive_functions(graph)).status,
                       rows |-> q(driver, failed, recursive_functions(graph)).rows,
                       source_fn |-> None, target_fn |-> None, max_depth |-> 0,
                       failed |-> failed, scanning |-> pc \in {"walk", "visit"}]
    /\ UNCHANGED <<graph, tree, pc, file_idx, analyzer, last, stale, project, errors, driver, linked>>

\* a client calls repetitive_constants
ToolRepetitiveConstants ==
    /\ response = NoResponse
    /\ \E limit \in QueryLimits :
       \E rows \in repetitive_constants(graph, limit) :
       \E failed \in BOOLEAN :
          response' = [tool |-> "repetitive_constants",
                       status |-> get_db_session(failed, rows).status,
                       rows |-> get_db_session(failed, rows).rows,
                       source_fn |-> None, target_fn |-> None, max_depth |-> 0,
                       failed |-> failed, scanning |-> pc \in {"walk", "visit"},
                       limit |-> limit]
    /\ UNCHANGED <<graph, tree, pc, file_idx, analyzer, last, stale, project, errors, driver, linked>>

\* a client calls repetitive_constant_names
ToolRepetitiveConstantNames ==
    /\ response = NoResponse
    /\ \E limit \in QueryLimits :
       \E rows \in repetitive_constant_names(graph, limit) :
       \E failed \in BOOLEAN :
          response' = [tool |-> "repetitive_constant_names",
                       status |-> get_db_session(failed, rows).status,
                       rows |-> get_db_session(failed, rows).rows,
                       source_fn |-> None, target_fn |-> None, max_depth |-> 0,
                       failed |-> failed, scanning |-> pc \in {"walk", "visit"},
                       limit |-> limit]
    /\ UNCHANGED <<graph, tree, pc, file_idx, analyzer, last, stale, project, errors, driver, linked>>

\* the scan and the anomaly and duplication queries side by side
NextAnomaly ==
    \/ main
    \/ analyze_file_begin
    \/ VisitClassDef
    \/ VisitFunctionDef
    \/ VisitCall
    \/ VisitAssign
    \/ VisitImport
    \/ VisitImportFrom
    \/ VisitReturn
    \/ analyze_file_end
    \/ main_end
    \/ ToolUncalledFunctions
    \/ ToolRecursiveFunctions
    \/ ToolRepetitiveConstants
    \/ ToolRepetitiveConstantNames

InitAnomaly ==
    /\ Idle
    /\ project = AnomalyFiles
    /\ driver = "connected"

SpecAnomaly == InitAnomaly /\ [][NextAnomaly]_vars

(***************************************************************************)
(* A statement the store refuses.  Every session.run of the analyzer can   *)
(* raise (the connection is lost, the store is read-only or full); the     *)
(* statements a handler has already sent stay committed.                   *)
(***************************************************************************)
\* the exception the driver raises when the store cannot take a statement
StoreError == "ServiceUnavailable"

\* nothing has been visited: an exception has left the visitor
Raised == [End EXCEPT !.op = "Raised"]

\* the store a raising statement of visit_FunctionDef leaves: the check and
\* the MERGE of the routine leave it as it was, the redirection leaves the
\* routine, the containment statement leaves the redirected edges too
FunctionDefPartial(g, a, tok) ==
    LET function_name == tok.name
        full_name == IF a.current_class # None
                     THEN a.current_class \o <<".">> \o function_name
                     ELSE function_name
        labels == FunctionLabels(a, function_name)
        result == ReferenceCheck(g, labels, function_name)
        g1 == MergeNode(g, labels,
                        [name |-> full_name, file |-> a.file_path,
                         is_reference |-> FALSE, line |-> tok.line,
                         end_line |-> tok.end_line,
                         length |-> FunctionLength(tok.line, tok.end_line)])
        g2 == RedirectCalls(g1, function_name, full_name, a.file_path)
    IN  IF IsDunder(function_name) THEN {}
        ELSE {g}
             \cup (IF result # {} \/ a.current_class # None THEN {g1} ELSE {})
             \cup (IF result # {} /\ a.current_class # None THEN {g2} ELSE {})

\* the store a raising statement of visit_Call leaves: the lookup and the
\* one statement that writes the edge leave it as it was
CallPartial(g, a, tok) ==
    IF IsFiltered(tok) \/ tok.name = None \/ a.current_function = None THEN {}
    ELSE {g}

\* the store a raising statement of visit_Assign leaves: the targets before
\* the one at hand are written, and the constant at hand is there without
\* its DEFINES edge when the second statement of _create_constant_node raises
AssignPartial(g, a, tok) ==
    IF a.is_test_file THEN {}
    ELSE UNION {
        LET target == tok.targets[k]
            before == AssignTargets(g, a, tok, SubSeq(tok.targets, 1, k - 1))
            extracted == _extract_constant_value(tok.value)
            container_name ==
                IF a.current_scope = "class" THEN a.current_class
                ELSE IF a.current_scope = "function" THEN a.current_function
                ELSE None
            merged == MergeNode(before, {"Constant"},
                                [name |-> target.id, value |-> extracted.value,
                                 type |-> extracted.type, file |-> a.file_path,
                                 line |-> tok.line, end_line |-> tok.end_line,
                                 scope |-> a.current_scope])
        IN  IF ~(target.kind = "Name" /\ IsConstantName(target.id)) THEN {}
            ELSE {before}
                 \cup (IF a.current_scope \in {"class", "function"} /\ container_name # None
                       THEN {merged} ELSE {})
        : k \in 1..Len(tok.targets)}

\* the store a raising statement of visit_Import leaves: the aliases before
\* the one at hand are written
ImportPartial(g, a, tok) ==
    IF ~a.is_test_file THEN {}
    ELSE {ImportNames(g, a, SubSeq(tok.names, 1, k - 1)) : k \in 1..Len(tok.names)}

ImportFromPartial(g, a, tok) ==
    IF ~a.is_test_file THEN {}
    ELSE {ImportFromNames(g, a, tok.module, SubSeq(tok.names, 1, k - 1)) :
             k \in 1..Len(tok.names)}

\* the store a raising statement of the handler of the node at the
\* visitor's position leaves; a handler that sends no statement cannot raise
VisitPartial(g, a, tokens) ==
    LET tok == tokens[a.pos]
    IN  CASE tok.op = "ClassDef" -> {g}
          [] tok.op = "FunctionDef" -> FunctionDefPartial(g, a, tok)
          [] tok.op = "Call" -> CallPartial(g, a, tok)
          [] tok.op = "Assign" -> AssignPartial(g, a, tok)
          [] tok.op = "Import" -> ImportPartial(g, a, tok)
          [] tok.op = "ImportFrom" -> ImportFromPartial(g, a, tok)
          [] OTHER -> {}

\* the store a raising statement of process_test_relationships leaves
LinkerPartial(g, a) ==
    IF ~a.is_test_file THEN {}
    ELSE {g, LinkByNaming(g), LinkByImports(LinkByNaming(g))}

\* a statement of analyzer.visit(tree) or of process_test_relationships
\* raises inside the try block of analyze_file: an except clause that
\* catches it records the file and analyze_directory goes on, otherwise the
\* exception leaves analyze_file, the loop of analyze_directory and main
StoreWriteFails ==
    /\ pc = "visit"
    /\ graph' \in (IF analyzer.pos <= Len(tree[file_idx].tokens)
                   THEN VisitPartial(graph, analyzer, tree[file_idx].tokens)
                   ELSE IF RunsLinker(analyzer.is_test_file)
                   THEN LinkerPartial(graph, analyzer)
                   ELSE {})
    /\ IF Caught(StoreError)
       THEN /\ errors' = Append(errors,
                  register_file_error([tree[file_idx] EXCEPT !.error = StoreError]))
            /\ file_idx' = file_idx + 1
            /\ analyzer' = NoAnalyzer
            /\ pc' = "walk"
       ELSE /\ pc' = "failed"
            /\ UNCHANGED <<analyzer, file_idx, errors>>
    /\ last' = Raised
    /\ response' = NoResponse
    /\ UNCHANGED <<tree, stale, project, driver, linked>>

\* a scan during which the store may refuse a statement
NextFail ==
    \/ main
    \/ analyze_file_begin
    \/ VisitClassDef
    \/ VisitFunctionDef
    \/ VisitCall
    \/ VisitAssign
    \/ VisitImport
    \/ VisitImportFrom
    \/ VisitReturn
    \/ analyze_file_end
    \/ main_end
    \/ StoreWriteFails

InitFail ==
    /\ Idle
    /\ project = FailFiles
    /\ driver = "connected"

SpecFail == InitFail /\ [][NextFail]_vars

(***************************************************************************)
(* Vocabulary of the properties                                            *)
(***************************************************************************)
\* the Routine entities of a graph
Routines(g) == {i \in 1..Len(g.nodes) : "Function" \in g.nodes[i].labels}

Placeholders(g) == {i \in Routines(g) : g.nodes[i].props.is_reference}

Concretes(g) == {i \in Routines(g) : ~g.nodes[i].props.is_reference}

\* the routines of a graph with a given simple name
Named(g, ids, n) == {i \in ids : SimpleName(g.nodes[i].props.name) = n}

CallEdges(g) == {e \in g.rels : e.type = "CALLS"}

\* the call edges into one of the nodes ids
Inbound(g, ids) == {e \in CallEdges(g) : e.dst \in ids}

\* the visitor is about to consume a node of kind op
About(op) ==
    /\ pc = "visit"
    /\ analyzer.pos <= Len(tree[file_idx].tokens)
    /\ CurrentToken.op = op

\* the qualified name of the routine whose definition is about to be consumed
EnteredName ==
    IF analyzer.current_class # None
    THEN analyzer.current_class \o <<".">> \o CurrentToken.name
    ELSE CurrentToken.name

\* the nodes of g that are the concrete routine called full_name of a file
DefinedAs(g, full_name, file) ==
    {i \in Concretes(g) : g.nodes[i].props.name = full_name /\ g.nodes[i].props.file = file}

(***************************************************************************)
(* C1  Forward reference.  Routine main of a.py calls helper and helper is *)
(* defined in b.py, scanned later (other files of the scan neither call    *)
(* nor define helper): after the full scan there is exactly one Routine    *)
(* named helper, it is concrete, there is exactly one CallEdge from main   *)
(* to it, and no placeholder named helper is left.                         *)
(***************************************************************************)
C1_ForwardScan ==
    \E i, j \in 1..Len(tree) :
        /\ i < j
        /\ tree[i] = File_main
        /\ tree[j] = File_helper
        /\ \A k \in 1..Len(tree) : k \notin {i, j} => tree[k] = File_example

C1_ForwardReference ==
    (pc = "done" /\ C1_ForwardScan) =>
        /\ Cardinality(Named(graph, Routines(graph), n_helper)) = 1
        /\ Named(graph, Routines(graph), n_helper) \subseteq Concretes(graph)
        /\ Cardinality({e \in Inbound(graph, Named(graph, Routines(graph), n_helper)) :
                           graph.nodes[e.src].props.name = n_main}) = 1
        /\ Named(graph, Placeholders(graph), n_helper) = {}

(***************************************************************************)
(* C2  Resolution on definition goes by the simple name alone.  Whenever   *)
(* the definition of a routine with simple name n is consumed while a      *)
(* placeholder named n exists, every CallEdge into the placeholder is      *)
(* gone afterwards and its caller has a CallEdge to the new routine,       *)
(* whatever the kind of the routine (method, test, example, main).         *)
(***************************************************************************)
C2_ResolutionStep ==
    (About("FunctionDef") /\ ~IsDunder(CurrentToken.name) /\ analyzer' # analyzer) =>
        \A e \in Inbound(graph, Named(graph, Placeholders(graph), CurrentToken.name)) :
            /\ e \notin graph'.rels
            /\ \E d \in DefinedAs(graph', EnteredName, analyzer.file_path) :
                  \E f \in CallEdges(graph') : f.src = e.src /\ f.dst = d

C2_ResolutionBySimpleName == [][C2_ResolutionStep]_vars

(***************************************************************************)
(* C3  Resolution preserves call edges one for one.  When the consumption  *)
(* of a definition resolves a placeholder (its inbound CallEdges leave     *)
(* it), every CallEdge (caller, placeholder, line, args) has exactly one   *)
(* CallEdge (caller, new routine, same line, same args) afterwards, and    *)
(* the number of CallEdges is unchanged.                                   *)
(***************************************************************************)
C3_Resolves ==
    /\ About("FunctionDef")
    /\ Inbound(graph, Named(graph, Placeholders(graph), CurrentToken.name)) # {}
    /\ Inbound(graph', Named(graph', Placeholders(graph'), CurrentToken.name)) = {}

C3_PreservationStep ==
    C3_Resolves =>
        /\ \A e \in Inbound(graph, Named(graph, Placeholders(graph), CurrentToken.name)) :
              Cardinality({f \in CallEdges(graph') :
                              /\ f.src = e.src
                              /\ f.dst \in DefinedAs(graph', EnteredName, analyzer.file_path)
                              /\ HasProps(f.props, [line |-> e.props.line,
                                                    args |-> e.props.args])}) = 1
        /\ Cardinality(CallEdges(graph')) = Cardinality(CallEdges(graph))

C3_EdgesPreserved == [][C3_PreservationStep]_vars

(***************************************************************************)
(* C4  At most one placeholder per simple name, in every state of a scan;  *)
(* a call to a name that has no concrete routine but has a placeholder     *)
(* creates no node and attaches to that placeholder, from whatever file    *)
(* and line it is made.                                                    *)
(***************************************************************************)
\* the call about to be consumed is to a built-in or into the standard library
FilteredCall ==
    \/ CurrentToken.name \in BUILTIN_FUNCTIONS
    \/ (CurrentToken.module # None /\ CurrentToken.module \in StdlibModules)

\* the visitor is about to consume a call that is made inside a routine and
\* is not filtered
AboutCallTo(n) ==
    /\ About("Call")
    /\ CurrentToken.name = n
    /\ n # None
    /\ ~FilteredCall
    /\ analyzer.current_function # None

\* the nodes of the routine the visitor is in
CallerNodes(g) ==
    {i \in Routines(g) : /\ g.nodes[i].props.name = analyzer.current_function
                         /\ g.nodes[i].props.file = analyzer.file_path}

C4_OnePerName ==
    \A i, j \in Placeholders(graph) :
        graph.nodes[i].props.name = graph.nodes[j].props.name => i = j

C4_AttachStep ==
    \A p \in Placeholders(graph) :
        (/\ AboutCallTo(graph.nodes[p].props.name)
         /\ Named(graph, Concretes(graph), graph.nodes[p].props.name) = {}
         /\ analyzer' # analyzer) =>
            /\ graph'.nodes = graph.nodes
            /\ \A e \in graph'.rels \ graph.rels : e.type = "CALLS" /\ e.dst = p
            /\ \A c \in CallerNodes(graph) :
                  \E e \in CallEdges(graph') :
                     /\ e.src = c /\ e.dst = p
                     /\ HasProps(e.props, [line |-> CurrentToken.line,
                                           args |-> CurrentToken.args])

C4_OnePlaceholderPerName == []C4_OnePerName /\ [][C4_AttachStep]_vars

\* a placeholder that is called from routines of two files
C4_Witness ==
    \E p \in Placeholders(graph) :
        \E e, f \in Inbound(graph, {p}) :
            graph.nodes[e.src].props.file # graph.nodes[f.src].props.file

(***************************************************************************)
(* C5  A call to n that is consumed while a concrete routine with simple   *)
(* name n exists (a method Class.n and a routine resolved from a           *)
(* placeholder included) creates no placeholder and every CallEdge it      *)
(* creates targets a concrete routine.                                     *)
(***************************************************************************)
C5_CallStep ==
    (/\ About("Call")
     /\ AboutCallTo(CurrentToken.name)
     /\ Named(graph, Concretes(graph), CurrentToken.name) # {}
     /\ analyzer' # analyzer) =>
        /\ Placeholders(graph') = Placeholders(graph)
        /\ \A e \in graph'.rels \ graph.rels : e.dst \in Concretes(graph')

C5_CallTargetsConcrete == [][C5_CallStep]_vars

(***************************************************************************)
(* C6  First match.  A call to n consumed after routines with simple name  *)
(* n of several files have been defined creates exactly one CallEdge, and  *)
(* its target is the routine whose definition was consumed first.          *)
(***************************************************************************)
C6_CallStep ==
    (/\ About("Call")
     /\ AboutCallTo(CurrentToken.name)
     /\ Cardinality({graph.nodes[i].props.file :
                        i \in Named(graph, Concretes(graph), CurrentToken.name)}) > 1
     /\ analyzer' # analyzer) =>
        /\ Cardinality(graph'.rels \ graph.rels) = 1
        /\ \A e \in graph'.rels \ graph.rels :
              /\ e.type = "CALLS"
              /\ e.dst = FirstNode(Named(graph, Concretes(graph), CurrentToken.name))

C6_FirstMatch == [][C6_CallStep]_vars

(***************************************************************************)
(* C7  After a scan no two concrete Routine entities have the same         *)
(* qualified name and file.                                                *)
(***************************************************************************)
C7_UniqueIdentity ==
    pc = "done" =>
        \A i, j \in Concretes(graph) :
            (/\ graph.nodes[i].props.name = graph.nodes[j].props.name
             /\ graph.nodes[i].props.file = graph.nodes[j].props.file) => i = j

(***************************************************************************)
(* C8  The full scan is idempotent: whatever the store held when main      *)
(* began, the finished scan has the node and edge counts of a scan of the  *)
(* same files in the same order on an empty store.                         *)
(***************************************************************************)
C8_FullScanIdempotent ==
    pc = "done" =>
        /\ Len(graph.nodes) = Len(analyze_directory(EmptyGraph, tree).nodes)
        /\ Cardinality(graph.rels) = Cardinality(analyze_directory(EmptyGraph, tree).rels)

\* a finished scan that began on a store holding nodes of other files
C8_Witness ==
    /\ pc = "done"
    /\ stale
    /\ graph.rels # {}

(***************************************************************************)
(* C9  No Routine entity, concrete or placeholder, has a simple name that  *)
(* starts and ends with two underscores.                                   *)
(***************************************************************************)
C9_NoDunderRoutine ==
    \A i \in Routines(graph) :
        LET n == SimpleName(graph.nodes[i].props.name)
        IN  ~(StartsWith(n, n_us) /\ EndsWith(n, n_us))

(***************************************************************************)
(* C10  Consuming a call to a built-in, or a call whose receiver is a      *)
(* standard-library module, leaves the graph unchanged.                    *)
(***************************************************************************)
C10_FilteredStep ==
    (About("Call") /\ FilteredCall) => graph' = graph

C10_FilteredCallNoEffect == [][C10_FilteredStep]_vars

\* a call to a built-in has just been consumed inside a routine
C10_Witness ==
    /\ pc = "visit"
    /\ last.op = "Call"
    /\ last.name \in BUILTIN_FUNCTIONS
    /\ analyzer.current_function # None

(***************************************************************************)
(* C11  Classification is a total, exclusive function of the path and the  *)
(* configuration: a file is Example if a segment of its path equals        *)
(* examples, whatever test pattern matches; otherwise it is Test if and    *)
(* only if a segment equals a configured test-directory pattern or the     *)
(* file name matches a configured test-file glob; otherwise Production.    *)
(***************************************************************************)
\* a segment of the path equals examples
SegmentExamples(path) == \E i \in 1..Len(path) : path[i] = n_examples

\* a segment equals a test-directory pattern, or the file name matches a
\* test-file glob
TestPattern(path) ==
    \/ \E i \in 1..Len(path) : \E p \in TEST_DIR_PATTERNS : path[i] = RStripSlash(p)
    \/ \E p \in TEST_FILE_PATTERNS : fnmatch(path[Len(path)], p)

\* the classification the rule gives a path
Classification(path) ==
    IF SegmentExamples(path) THEN "example"
    ELSE IF TestPattern(path) THEN "test"
    ELSE "production"

C11_Classification ==
    pc = "visit" =>
        file_type(analyzer.is_test_file, analyzer.is_example_file)
            = Classification(analyzer.file_path)

(***************************************************************************)
(* C12  For every assignment to a plain name in a scanned file, whatever   *)
(* the classification of the file, a Constant entity is recorded if and    *)
(* only if the name is all upper-case, contains an underscore and is       *)
(* longer than one character.                                              *)
(***************************************************************************)
\* the Constant entities of a graph with a name, a file and a line
ConstantsAt(g, name, file, line) ==
    {i \in 1..Len(g.nodes) :
        /\ "Constant" \in g.nodes[i].labels
        /\ g.nodes[i].props.name = name
        /\ g.nodes[i].props.file = file
        /\ g.nodes[i].props.line = line}

\* the naming convention of constants
ConstantConvention(name) ==
    /\ isupper(name)
    /\ \E i \in 1..Len(name) : name[i] = "_"
    /\ Len(name) > 1

C12_ConstantIffConvention ==
    pc = "done" =>
        \A k \in 1..Len(tree) : \A p \in 1..Len(tree[k].tokens) :
            tree[k].tokens[p].op = "Assign" =>
                \A t \in 1..Len(tree[k].tokens[p].targets) :
                    LET target == tree[k].tokens[p].targets[t]
                    IN  target.kind = "Name" =>
                           (ConstantsAt(graph, target.id, tree[k].path,
                                        tree[k].tokens[p].line) # {}
                              <=> ConstantConvention(target.id))

(***************************************************************************)
(* C13  For every successfully analysed file a File node keyed by its      *)
(* relative path exists, labelled by its classification (TestFile for a    *)
(* Test unit), with a containment edge to each class and to each           *)
(* module-level function the file defines.                                 *)
(***************************************************************************)
\* the File nodes of a graph with a path
FileNodes(g, path) ==
    {i \in 1..Len(g.nodes) :
        /\ "File" \in g.nodes[i].labels
        /\ "path" \in DOMAIN g.nodes[i].props
        /\ g.nodes[i].props.path = path}

\* the classes and the module-level functions a file defines
TopLevel(g, path) ==
    {i \in 1..Len(g.nodes) :
        /\ g.nodes[i].props.file = path
        /\ \/ "Class" \in g.nodes[i].labels
           \/ /\ "Function" \in g.nodes[i].labels
              /\ "ClassFunction" \notin g.nodes[i].labels
              /\ ~g.nodes[i].props.is_reference}

C13_FileNodes ==
    pc = "done" =>
        \A k \in 1..Len(tree) :
            tree[k].error = "none" =>
                \E f \in FileNodes(graph, tree[k].path) :
                    /\ is_test_file(tree[k].path) => "TestFile" \in graph.nodes[f].labels
                    /\ \A c \in TopLevel(graph, tree[k].path) :
                          \E e \in graph.rels :
                             e.type = "CONTAINS" /\ e.src = f /\ e.dst = c

(***************************************************************************)
(* C14  When a Test unit imports the production function add, defines the  *)
(* test routine test_add, and test_add calls add, add's unit having been   *)
(* scanned before, the Linker produces exactly three TestEdges from        *)
(* test_add to add, one per method (naming, import, call); they are not    *)
(* merged into one edge, and running the Linker again adds no edge.        *)
(***************************************************************************)
\* the TestEdges of a graph
TestEdges(g) == {e \in g.rels : e.type = "TESTS"}

\* calc.py is scanned before tests/test_calc.py
C14_Scenario ==
    \E i, j \in 1..Len(tree) :
        i < j /\ tree[i] = File_calc /\ tree[j] = File_test_calc

C14_ThreeTestEdges ==
    (pc = "done" /\ C14_Scenario) =>
        \E t \in DefinedAs(graph, n_test_add, File_test_calc.path) :
        \E r \in DefinedAs(graph, n_add, File_calc.path) :
            LET edges == {e \in TestEdges(graph) : e.src = t /\ e.dst = r}
            IN  /\ Cardinality(edges) = 3
                /\ Cardinality({e.props.method : e \in edges}) = 3
                /\ process_test_relationships(
                       graph, CodeAnalyzer(File_test_calc.path, TRUE)).rels = graph.rels

(***************************************************************************)
(* C15  The naming heuristic matches on simple names: after the Linker     *)
(* has run, for every test routine t (a module-level function or a method  *)
(* of a test class), every configured prefix p that t's simple name        *)
(* starts with and every non-test routine r whose simple name is the rest  *)
(* of t's simple name, there is a naming TestEdge from t to r.             *)
(***************************************************************************)
\* the test routines and the non-test routines of a graph
TestRoutines(g) == {i \in Routines(g) : "TestFunction" \in g.nodes[i].labels}

NonTestRoutines(g) == {i \in Routines(g) : "TestFunction" \notin g.nodes[i].labels}

\* every pair the naming heuristic is to link is linked
NamingLinked(g) ==
    \A t \in TestRoutines(g) : \A p \in TEST_FUNCTION_PREFIXES :
        LET simple == SimpleName(g.nodes[t].props.name)
        IN  StartsWith(simple, p) =>
               \A r \in NonTestRoutines(g) :
                  SimpleName(g.nodes[r].props.name)
                        = SubSeq(simple, Len(p) + 1, Len(simple)) =>
                     \E e \in TestEdges(g) :
                        /\ e.src = t /\ e.dst = r
                        /\ e.props.method = "naming_pattern"

\* the step of analyze_file that runs the Linker
LinkerStep ==
    /\ pc = "visit"
    /\ analyzer.pos > Len(tree[file_idx].tokens)
    /\ analyzer.is_test_file
    /\ pc' = "walk"

C15_NamingStep == LinkerStep => NamingLinked(graph')

C15_NamingBySimpleName == [][C15_NamingStep]_vars

(***************************************************************************)
(* C16  For every state of the graph get_test_coverage_ratio yields        *)
(* coverage_ratio = (non-test routines with at least one inbound           *)
(* TestEdge) / (non-test routines), a value between 0 and 1, and it        *)
(* yields 0 when there is no non-test routine.                             *)
(***************************************************************************)
\* the non-test routines of a graph that a TestEdge leads to
Covered(g) == {i \in NonTestRoutines(g) : \E e \in TestEdges(g) : e.dst = i}

\* the latest step was a call of a tool that reached the store
Answered(tool) ==
    /\ response.tool = tool
    /\ driver = "connected"
    /\ ~response.failed

C16_CoverageRatio ==
    Answered("get_test_coverage_ratio") =>
        /\ Len(response.rows) = 1
        /\ LET ratio == response.rows[1].coverage_ratio
           IN  /\ 0 <= ratio.num /\ ratio.num <= ratio.den
               /\ IF NonTestRoutines(graph) = {}
                  THEN ratio.num = 0
                  ELSE ratio.num * Cardinality(NonTestRoutines(graph))
                          = Cardinality(Covered(graph)) * ratio.den

(***************************************************************************)
(* C17  Every query tool returns an empty result and does not raise when   *)
(* the store is unavailable or a store call fails.                         *)
(***************************************************************************)
C17_EmptyWhenUnavailable ==
    (response.tool # "none" /\ (driver = "None" \/ response.failed)) =>
        /\ response.status = "ok"
        /\ response.rows = <<>>

(***************************************************************************)
(* C18  When a file fails to parse or to decode, analyze_file records the  *)
(* error (file, type, message), adds no entity and no edge for that file   *)
(* to the graph and does not raise, and the directory scan goes on to      *)
(* analyse every remaining file.                                           *)
(***************************************************************************)
\* open and ast.parse accept the file
Parses(file) == file.error = "none"

\* analyze_file is about to be called for a file that fails
AboutFailingFile ==
    /\ pc = "walk"
    /\ file_idx <= Len(tree)
    /\ ~Parses(tree[file_idx])

C18_ErrorStep ==
    AboutFailingFile =>
        /\ graph' = graph
        /\ Len(errors') = Len(errors) + 1
        /\ errors'[Len(errors')].file = tree[file_idx].path
        /\ errors'[Len(errors')].type = tree[file_idx].error
        /\ errors'[Len(errors')].message # ""
        /\ pc' = "walk"
        /\ file_idx' = file_idx + 1

\* a finished scan has the graph of the files that parse, nothing of a file
\* that fails, and one recorded error for each file that fails
C18_ScanWentOn ==
    pc = "done" =>
        /\ graph = analyze_directory(EmptyGraph, SelectSeq(tree, Parses))
        /\ \A k \in 1..Len(tree) :
              ~Parses(tree[k]) =>
                  /\ \A i \in 1..Len(graph.nodes) :
                        graph.nodes[i].props.file # tree[k].path
                  /\ \E i \in 1..Len(errors) : errors[i].file = tree[k].path
        /\ Len(errors) = Len(tree) - Len(SelectSeq(tree, Parses))

C18_ErrorsSkipFile == []C18_ScanWentOn /\ [][C18_ErrorStep]_vars

\* a finished scan that met a file that does not parse and one that does
\* not decode, and analysed a file after each of them
C18_Witness ==
    /\ pc = "done"
    /\ {errors[i].type : i \in 1..Len(errors)} = {"SyntaxError", "UnicodeDecodeError"}
    /\ Parses(tree[Len(tree)])
    /\ \E i \in 1..Len(graph.nodes) :
          graph.nodes[i].props.file = tree[Len(tree)].path

(***************************************************************************)
(* C19  Rescan is clear-then-rebuild and is not atomic for readers: while  *)
(* a scan runs the store holds only what that scan has rebuilt so far, a   *)
(* query made meanwhile is answered from that empty or partial graph, and  *)
(* it completes normally, possibly with no rows.                           *)
(***************************************************************************)
\* the scan is between main's clearing and its end
Scanning == pc \in {"walk", "visit"}

\* every node in the store is of a file the running scan has reached
C19_RebuiltSoFar ==
    Scanning =>
        \A i \in 1..Len(graph.nodes) :
            \E k \in 1..Len(tree) :
                k <= file_idx /\ graph.nodes[i].props.file = tree[k].path

\* a query step made while the scan runs, the store being reachable
C19_QueryStep ==
    (/\ Scanning
     /\ response'.tool # "none"
     /\ driver = "connected"
     /\ ~response'.failed) =>
        /\ response'.status = "ok"
        /\ response'.scanning
        /\ graph' = graph
        /\ response'.tool = "get_test_coverage_ratio" =>
              response'.rows = get_test_coverage_ratio(graph)
        /\ response'.tool = "transitive_calls" =>
              response'.rows \in transitive_calls(graph, response'.source_fn,
                                                  response'.target_fn,
                                                  response'.max_depth)

C19_RescanNotAtomic == []C19_RebuiltSoFar /\ [][C19_QueryStep]_vars

\* a query made during a scan got an answer, with rows, that the finished
\* graph of that scan does not give
C19_Witness ==
    /\ Scanning
    /\ response.tool = "transitive_calls"
    /\ response.status = "ok"
    /\ response.rows # <<>>
    /\ response.rows \notin transitive_calls(analyze_directory(EmptyGraph, tree),
                                             response.source_fn, response.target_fn,
                                             response.max_depth)

(***************************************************************************)
(* C20  Every path returned by transitive_calls(source, target,            *)
(* max_depth) starts at a routine named source, ends at a routine named    *)
(* target, follows CallEdges only and has a length between 1 and           *)
(* max_depth; the rows come in non-decreasing path length and are at most  *)
(* 10; so no row is returned for max_depth 2 when the only path from       *)
(* source to target has length 3.                                          *)
(***************************************************************************)
\* step i of a row is a CallEdge between routines with the names and the
\* files the row gives
RowStep(g, row, i) ==
    \E e \in CallEdges(g) :
        /\ e.src \in Routines(g) /\ e.dst \in Routines(g)
        /\ g.nodes[e.src].props.name = row.function_names[i]
        /\ g.nodes[e.src].props.file = row.function_files[i]
        /\ g.nodes[e.dst].props.name = row.function_names[i + 1]
        /\ g.nodes[e.dst].props.file = row.function_files[i + 1]

C20_TransitiveCalls ==
    Answered("transitive_calls") =>
        /\ \A k \in 1..Len(response.rows) :
              LET row == response.rows[k]
              IN  /\ row.function_names[1] = response.source_fn
                  /\ row.function_names[Len(row.function_names)] = response.target_fn
                  /\ Len(row.function_names) = row.path_length + 1
                  /\ Len(row.function_files) = row.path_length + 1
                  /\ row.path_length >= 1
                  /\ row.path_length <= response.max_depth
                  /\ \A i \in 1..row.path_length : RowStep(graph, row, i)
        /\ \A k \in 1..(Len(response.rows) - 1) :
              response.rows[k].path_length <= response.rows[k + 1].path_length
        /\ Len(response.rows) <= 10
        /\ (/\ response.source_fn = n_top
            /\ response.target_fn = n_leaf
            /\ response.max_depth = 2) => response.rows = <<>>

\* ten rows were returned for paths of length three
C20_Witness ==
    /\ Answered("transitive_calls")
    /\ Len(response.rows) = 10
    /\ response.rows[10].path_length = 3

(***************************************************************************)
(* C21  For every graph state uncalled_functions returns exactly the       *)
(* concrete routines that have no inbound CallEdge: never a routine with   *)
(* an inbound CallEdge (a self-call included), never a placeholder.        *)
(***************************************************************************)
\* a routine as the rows of a query name it: name, file and line
RoutineKey(g, i) ==
    <<g.nodes[i].props.name, g.nodes[i].props.file, g.nodes[i].props.line>>

\* the routines the rows of the latest response name
Returned == {<<response.rows[k].name, response.rows[k].file, response.rows[k].line>> :
                k \in 1..Len(response.rows)}

C21_UncalledExact ==
    Answered("uncalled_functions") =>
        Returned = {RoutineKey(graph, i) :
                       i \in {c \in Concretes(graph) : Inbound(graph, {c}) = {}}}

(***************************************************************************)
(* C22  For every graph state the set of routines recursive_functions      *)
(* returns equals the set of routines that have a CallEdge whose source    *)
(* and target are the same routine; a cycle of more than one call is not   *)
(* reported.                                                               *)
(***************************************************************************)
\* the routines with a CallEdge from themselves to themselves
SelfCalling(g) == {i \in Routines(g) : \E e \in CallEdges(g) : e.src = i /\ e.dst = i}

C22_RecursiveExact ==
    Answered("recursive_functions") =>
        Returned = {RoutineKey(graph, i) : i \in SelfCalling(graph)}

(***************************************************************************)
(* C23  repetitive_constants reports exactly the groups of Constant        *)
(* entities with equal serialized value that have more than one member,    *)
(* the largest groups if the limit cuts them, each with all of its         *)
(* occurrences, and no group for a value a single constant holds;          *)
(* repetitive_constant_names groups by name in the same way, whatever the  *)
(* values.                                                                 *)
(***************************************************************************)
\* the Constant entities of a graph
Constants(g) == {i \in 1..Len(g.nodes) : "Constant" \in g.nodes[i].labels}

\* the constants of a graph that have the key k: a value or a name
Group(g, by, k) == {c \in Constants(g) : g.nodes[c].props[by] = k}

\* the keys that more than one constant has
Repeated(g, by) ==
    {k \in {g.nodes[c].props[by] : c \in Constants(g)} : Cardinality(Group(g, by, k)) > 1}

\* the rows are groups by the property by, which a row gives in its field by
GroupedBy(by, other) ==
    /\ \A k \in 1..Len(response.rows) :
          LET row == response.rows[k]
              group == Group(graph, by, row[by])
          IN  /\ row.count > 1
              /\ row.count = Cardinality(group)
              /\ Len(row.occurrences) = row.count
              /\ {<<o[other], o.file, o.line, o.scope>> :
                     o \in {row.occurrences[i] : i \in 1..Len(row.occurrences)}}
                   = {<<graph.nodes[c].props[other], graph.nodes[c].props.file,
                        graph.nodes[c].props.line, graph.nodes[c].props.scope>> :
                         c \in group}
              /\ \A j \in 1..Len(response.rows) : response.rows[j][by] = row[by] => j = k
              /\ \A r \in Repeated(graph, by) :
                    (\A j \in 1..Len(response.rows) : response.rows[j][by] # r) =>
                        Cardinality(Group(graph, by, r)) <= row.count
    /\ \A k \in 1..(Len(response.rows) - 1) :
          response.rows[k].count >= response.rows[k + 1].count
    /\ Len(response.rows) =
          IF Cardinality(Repeated(graph, by)) < response.limit
          THEN Cardinality(Repeated(graph, by))
          ELSE response.limit

C23_RepetitiveGroups ==
    /\ (response.tool = "repetitive_constants" /\ ~response.failed) =>
          GroupedBy("value", "name")
    /\ (response.tool = "repetitive_constant_names" /\ ~response.failed) =>
          GroupedBy("name", "value")

\* two groups by value were reported, one of them holds constants of two
\* names, a value that one constant holds was not reported, and the
\* constants of one name hold several values
C23_Witness ==
    /\ response.tool = "repetitive_constants"
    /\ ~response.failed
    /\ Len(response.rows) = 2
    /\ \E i \in 1..2 : response.rows[1].occurrences[i].name # response.rows[1].occurrences[1].name
    /\ \E c \in Constants(graph) :
          \A k \in 1..Len(response.rows) : response.rows[k].value # graph.nodes[c].props.value
    /\ \E c, d \in Constants(graph) :
          /\ graph.nodes[c].props.name = graph.nodes[d].props.name
          /\ graph.nodes[c].props.value # graph.nodes[d].props.value

(***************************************************************************)
(* C24  When a nested class or routine scope exits, the scope state of     *)
(* the extractor (scope kind, current class, current routine) is that of   *)
(* the enclosing scope again: at every node the visitor reaches, the       *)
(* scope kind is that of the innermost open class or routine, the current  *)
(* class is the innermost open class and the current routine is the        *)
(* innermost open routine, so that what follows a nested definition is     *)
(* attributed to the enclosing routine or class.                           *)
(***************************************************************************)
\* the innermost node of one of the kinds ops that is open when the visitor
\* is at position pos, 0 if there is none
Innermost(tokens, pos, ops) ==
    LET open == {p \in 1..(pos - 1) :
                    /\ tokens[p].op \in ops
                    /\ ClosingEnd(tokens, p + 1, 1) >= pos}
    IN  IF open = {} THEN 0 ELSE CHOOSE p \in open : \A r \in open : r <= p

C24_ScopeRestored ==
    (pc = "visit" /\ analyzer.pos <= Len(tree[file_idx].tokens)) =>
        LET tokens == tree[file_idx].tokens
            s == Innermost(tokens, analyzer.pos, {"ClassDef", "FunctionDef"})
            c == Innermost(tokens, analyzer.pos, {"ClassDef"})
            f == Innermost(tokens, analyzer.pos, {"FunctionDef"})
        IN  /\ analyzer.current_scope =
                  (IF s = 0 THEN "module"
                   ELSE IF tokens[s].op = "ClassDef" THEN "class" ELSE "function")
            /\ analyzer.current_class = (IF c = 0 THEN None ELSE tokens[c].name)
            /\ IF f = 0 THEN analyzer.current_function = None
               ELSE SimpleName(analyzer.current_function) = tokens[f].name

\* C25: a store write that fails during a scan is fatal for that scan.  The
\* step in which a statement of the analysis raises ends the scan as failed:
\* the exception is not recorded as a file error and the loop of
\* analyze_directory does not go on to another file.  From the failed scan
\* nothing is analysed and nothing is written again: the next step is a
\* full scan, which starts by clearing the store, so the partial graph
\* stays as the failure left it until then.
C25_WriteFailureFatal ==
    [][/\ (pc = "visit" /\ last'.op = "Raised") =>
             /\ pc' = "failed"
             /\ file_idx' = file_idx
             /\ analyzer' = analyzer
             /\ errors' = errors
             /\ linked' = linked
       /\ pc = "failed" =>
             /\ pc' = "walk"
             /\ file_idx' = 1
             /\ graph' = EmptyGraph
             /\ errors' = <<>>
             /\ linked' = <<>>]_vars

\* a scan has failed on a refused statement, files of the tree have not
\* been analysed, and the store holds the part that was written
C25_Witness ==
    /\ pc = "failed"
    /\ last.op = "Raised"
    /\ file_idx < Len(tree)
    /\ Len(graph.nodes) > 0
    /\ graph.rels # {}

\* how often a path occurs in a sequence of paths
Occurrences(paths, path) == Cardinality({i \in 1..Len(paths) : paths[i] = path})

\* analyze_file has classified the file as a test unit
TestClassified(file) ==
    file_type(is_test_file(file.path), is_example_file(file.path)) = "test"

\* C26: within a scan the Linker runs exactly once for each file that is
\* classified as a test unit and parses, and never for another file: at
\* every point of the scan the Linker has run once for each such file the
\* scan is through with and for no other file.
C26_OncePerTestFile ==
    pc \in {"walk", "visit", "done"} =>
        /\ \A k \in 1..Len(tree) :
              Occurrences(linked, tree[k].path) =
                 IF k < file_idx /\ TestClassified(tree[k]) /\ Parses(tree[k])
                 THEN 1 ELSE 0
        /\ \A i \in 1..Len(linked) : \E k \in 1..Len(tree) : linked[i] = tree[k].path

\* C26: the Linker runs only after the whole syntax tree of the file has
\* been visited: the step in which it runs is the one that follows the last
\* node of the file at hand, every visit_* method having returned, and it
\* is the step that writes the TestEdges.
C26_AfterWholeTree ==
    (linked' # linked /\ linked' # <<>>) =>
        /\ pc = "visit"
        /\ analyzer.pos > Len(tree[file_idx].tokens)
        /\ analyzer.frames = <<>>
        /\ linked' = Append(linked, tree[file_idx].path)
        /\ graph' = process_test_relationships(graph, analyzer)

\* C26: the Linker runs exactly once per parsed test unit of a scan, after
\* the visit of the file, and for no other file.
C26_LinkerRuns == []C26_OncePerTestFile /\ [][C26_AfterWholeTree]_vars

\* a finished scan of a test unit, a test unit that does not parse and an
\* example, in which the Linker has run for the first alone
C26_Witness ==
    /\ pc = "done"
    /\ linked = <<File_test_calc.path>>
    /\ \E k \in 1..Len(tree) : tree[k] = File_test_bad
    /\ \E k \in 1..Len(tree) : tree[k] = File_myexamples

\* C27: running the Linker for the test unit U only adds TestEdges whose
\* source is a test routine of U: the nodes stay as they are, no
\* relationship is removed, and every relationship that is added is a
\* TestEdge that starts at a test routine of the file at hand.
C27_FrameStep ==
    LinkerStep =>
        /\ graph'.nodes = graph.nodes
        /\ graph.rels \subseteq graph'.rels
        /\ \A e \in graph'.rels \ graph.rels :
              /\ e.type = "TESTS"
              /\ "TestFunction" \in graph.nodes[e.src].labels
              /\ graph.nodes[e.src].props.file = analyzer.file_path

NestedInFiltered(g, tokens, p) ==
    /\ tokens[p].op = "Call"
    /\ tokens[p].name # None
    /\ ~IsFiltered(tokens[p])
    /\ Named(g, Concretes(g), tokens[p].name) # {}
    /\ Innermost(tokens, p, {"Call"}) # 0
    /\ IsFiltered(tokens[Innermost(tokens, p, {"Call"})])
    /\ Innermost(tokens, p, {"FunctionDef"}) # 0
    /\ ~IsDunder(tokens[Innermost(tokens, p, {"FunctionDef"})].name)

\* C28: filtering a built-in or standard-library call suppresses only that
\* call: after a scan, every call of a project routine that is written in
\* the arguments of a filtered call inside a routine f (print(helper())
\* inside f) has its CallEdge from f to the routine called.
C28_NestedCallKept ==
    pc = "done" =>
        \A k \in 1..Len(tree) : \A p \in 1..Len(tree[k].tokens) :
            NestedInFiltered(graph, tree[k].tokens, p) =>
                \E e \in CallEdges(graph) :
                    /\ graph.nodes[e.src].props.file = tree[k].path
                    /\ SimpleName(graph.nodes[e.src].props.name) =
                          tree[k].tokens[Innermost(tree[k].tokens, p, {"FunctionDef"})].name
                    /\ SimpleName(graph.nodes[e.dst].props.name) = tree[k].tokens[p].name

\* C29: every TestEdge targets a concrete routine that is not a test
\* routine: no TestEdge in the store leads to a placeholder (a node with
\* is_reference = true), so that no placeholder counts as covered.
C29_TestEdgeTargets ==
    \A e \in TestEdges(graph) :
        /\ e.dst \in Concretes(graph)
        /\ "TestFunction" \notin graph.nodes[e.dst].labels

\* both tests/test_calc.py and calc.py are in the tree, in either order
C30_Scenario ==
    /\ \E i \in 1..Len(tree) : tree[i] = File_test_calc
    /\ \E j \in 1..Len(tree) : tree[j] = File_calc

====
